---- MODULE Spec2Model ----
(***************************************************************************)
(* A model of the trendify store: per-origin asset documents written by    *)
(* TrendifyManager.process_origins, the TrendifyIndex built over them, the *)
(* read cache of TrendifyManager._load_assets_file, the ProductSpecRegistry *)
(* and the polymorphic (de)serialisation of typeflow's SerializableModel.  *)
(***************************************************************************)
EXTENDS Integers, Sequences, FiniteSets, TLC

VARIABLES
    disk,          \* origin id -> asset document written under by_origin/<origin id>/
    spec_files,    \* <<spec type, origin id>> -> list of specs of specs/<type>/<origin>.json
    index,         \* TrendifyManager._index: <<>> (None) or <<the TrendifyIndex>>
    index_file,    \* the saved index file: <<>> (absent) or <<the TrendifyIndex>>
    file_cache,    \* TrendifyManager._file_cache, a dict in insertion order
    max_cache_size,\* TrendifyManager._max_cache_size
    registry,      \* ProductSpecRegistry.specs: <<spec type, tag>> -> spec
    pc,            \* where the controlling process is: idle, processing, indexing
    batch,         \* the process_origins call in progress, or the last one made
    writers,       \* asset file -> the tasks of the current batch that wrote it
    batches,       \* number of process_origins / process_data calls made
    ins_order,     \* history: the cached files in the order they were inserted
    rt,            \* the serialisation round trip under test
    coll,          \* the DataProductCollection in use and the last filter applied to it
    typeinfo,      \* TypeInfo._import_cache, the type objects made and the resolutions so far
    cmp,           \* the last comparison made: two objects, a == b and their hashes
    heap,          \* the lists of two collections: a source and the one get_products returned
    flat,          \* the last flatten or union: its argument and what it gave
    named          \* a NamedCollection: its items dict and the last operation on it

vars == <<disk, spec_files, index, index_file, file_cache, max_cache_size,
          registry, pc, batch, writers, batches, ins_order, rt, coll, typeinfo, cmp, heap, flat, named>>

(***************************************************************************)
(* Bounds of the model.                                                    *)
(***************************************************************************)
MaxBatches == 2
MaxInputs == 2
MaxCacheSize == 2

(***************************************************************************)
(* Generic helpers on Python dicts (functions with a growing domain) and   *)
(* lists (sequences).                                                      *)
(***************************************************************************)
EmptyDict == [k \in {} |-> 0]

Put(d, k, v) == [x \in (DOMAIN d) \cup {k} |-> IF x = k THEN v ELSE d[x]]

InList(x, s) == \E i \in 1..Len(s) : s[i] = x

AppendNew(s, x) == IF InList(x, s) THEN s ELSE Append(s, x)

(***************************************************************************)
(* Tags.  A tag is a hashable scalar; the index keys its buckets by        *)
(* str(tag), so a tag is modelled by its Python type and its text.         *)
(***************************************************************************)
TagA == [kind |-> "str", text |-> "a"]
TagB == [kind |-> "str", text |-> "b"]
TagInt1 == [kind |-> "int", text |-> "1"]
TagStr1 == [kind |-> "str", text |-> "1"]
Tags == {TagA, TagB, TagInt1, TagStr1}

Str(tag) == tag.text

StrTags(tags) == [i \in 1..Len(tags) |-> Str(tags[i])]

(***************************************************************************)
(* The closed set of asset classes and their subclass relation.            *)
(***************************************************************************)
NoType == "None"
AssetTypes == {"Asset", "PlottableData2D", "Point2D", "TableEntry"}

Parent(t) ==
    CASE t = "Point2D" -> "PlottableData2D"
      [] t = "PlottableData2D" -> "Asset"
      [] t = "TableEntry" -> "Asset"
      [] OTHER -> "SerializableModel"

RECURSIVE IsSubclass(_, _)
IsSubclass(t, base) ==
    IF t = base THEN TRUE
    ELSE IF t = "SerializableModel" THEN FALSE
    ELSE IsSubclass(Parent(t), base)

(***************************************************************************)
(* Origins.  An input directory is a path; its origin id is the directory  *)
(* name and hash(path) % 10000.                                            *)
(***************************************************************************)
Paths == {"a/run", "b/run", "a/exp", "a/cal"}

DirName(p) ==
    CASE p = "a/run" -> "run"
      [] p = "b/run" -> "run"
      [] p = "a/exp" -> "exp"
      [] OTHER -> "cal"

PathHash(p) ==
    CASE p = "a/run" -> 1234
      [] p = "b/run" -> 11234
      [] p = "a/exp" -> 5678
      [] OTHER -> 42

HashModulus == 10000

get_origin_id(p) == <<DirName(p), PathHash(p) % HashModulus>>

OriginIds == {get_origin_id(p) : p \in Paths}

\* The directories handed to process_origins: two of them share an origin id.
InputPaths == {"a/run", "b/run", "a/exp"}

data_assets_filename == "data_assets.json"

AssetFilePath(origin_id) == <<"by_origin", origin_id, data_assets_filename>>

AssetId(origin_id, asset_type, position) == <<origin_id, asset_type, position>>

SpecId(origin_id, spec_type, i) == <<origin_id, spec_type, i>>

SpecFilePath(spec_type, origin_id) == <<"specs", spec_type, origin_id>>

(***************************************************************************)
(* TrendifyIndex.                                                          *)
(***************************************************************************)
NewIndex == [tags |-> EmptyDict, origins |-> EmptyDict,
             assets |-> EmptyDict, specs |-> EmptyDict]

NewTagBucket == [asset_ids |-> <<>>, spec_ids |-> <<>>, asset_files |-> <<>>]

TagBucket(tags, t) == IF t \in DOMAIN tags THEN tags[t] ELSE NewTagBucket

RECURSIVE AddAssetToTags(_, _, _, _)
AddAssetToTags(tags, str_tags, i, asset_id) ==
    IF i > Len(str_tags) THEN tags
    ELSE LET b == TagBucket(tags, str_tags[i])
             b1 == [b EXCEPT !.asset_ids = AppendNew(@, asset_id)]
         IN AddAssetToTags(Put(tags, str_tags[i], b1), str_tags, i + 1, asset_id)

\* An add_asset that lists the id in the buckets and forgets its entry.
add_asset_unrecorded(ix, asset_id, asset_type, file_path, position, origin, tags) ==
    LET str_tags == StrTags(tags)
        ob == IF origin \in DOMAIN ix.origins THEN ix.origins[origin]
              ELSE [asset_ids |-> <<>>, directory |-> ""]
        ob1 == [ob EXCEPT !.asset_ids = AppendNew(@, asset_id)]
    IN [ix EXCEPT !.tags = AddAssetToTags(@, str_tags, 1, asset_id),
                  !.origins = Put(@, origin, ob1)]

\* An add_asset that appends to the origin bucket without looking.
add_asset_appending(ix, asset_id, asset_type, file_path, position, origin, tags) ==
    LET str_tags == StrTags(tags)
        entry == [type |-> asset_type, file |-> file_path, position |-> position,
                  origin |-> origin, tags |-> str_tags]
        ob == IF origin \in DOMAIN ix.origins THEN ix.origins[origin]
              ELSE [asset_ids |-> <<>>, directory |-> ""]
        ob1 == [ob EXCEPT !.asset_ids = Append(@, asset_id)]
    IN [ix EXCEPT !.assets = Put(@, asset_id, entry),
                  !.tags = AddAssetToTags(@, str_tags, 1, asset_id),
                  !.origins = Put(@, origin, ob1)]

\* An add_asset that puts the id at the front of the origin bucket.
add_asset_prepending(ix, asset_id, asset_type, file_path, position, origin, tags) ==
    LET str_tags == StrTags(tags)
        entry == [type |-> asset_type, file |-> file_path, position |-> position,
                  origin |-> origin, tags |-> str_tags]
        ob == IF origin \in DOMAIN ix.origins THEN ix.origins[origin]
              ELSE [asset_ids |-> <<>>, directory |-> ""]
        ob1 == [ob EXCEPT !.asset_ids = IF InList(asset_id, @) THEN @
                                        ELSE <<asset_id>> \o @]
    IN [ix EXCEPT !.assets = Put(@, asset_id, entry),
                  !.tags = AddAssetToTags(@, str_tags, 1, asset_id),
                  !.origins = Put(@, origin, ob1)]

add_asset(ix, asset_id, asset_type, file_path, position, origin, tags) ==
    LET str_tags == StrTags(tags)
        entry == [type |-> asset_type, file |-> file_path, position |-> position,
                  origin |-> origin, tags |-> str_tags]
        ob == IF origin \in DOMAIN ix.origins THEN ix.origins[origin]
              ELSE [asset_ids |-> <<>>, directory |-> ""]
        ob1 == [ob EXCEPT !.asset_ids = AppendNew(@, asset_id)]
    IN [ix EXCEPT !.assets = Put(@, asset_id, entry),
                  !.tags = AddAssetToTags(@, str_tags, 1, asset_id),
                  !.origins = Put(@, origin, ob1)]

add_spec(ix, spec_id, spec_type, file_path, tag) ==
    LET str_tag == Str(tag)
        b == TagBucket(ix.tags, str_tag)
        b1 == [b EXCEPT !.spec_ids = AppendNew(@, spec_id)]
    IN [ix EXCEPT !.specs = Put(@, spec_id,
                                [type |-> spec_type, file |-> file_path, tag |-> str_tag]),
                  !.tags = Put(@, str_tag, b1)]

add_asset_file(ix, file_path, tag) ==
    LET str_tag == Str(tag)
        b == TagBucket(ix.tags, str_tag)
        b1 == [b EXCEPT !.asset_files = AppendNew(@, file_path)]
    IN [ix EXCEPT !.tags = Put(@, str_tag, b1)]

get_asset_ids_by_tag(ix, tag) ==
    IF Str(tag) \in DOMAIN ix.tags THEN ix.tags[Str(tag)].asset_ids ELSE <<>>

get_asset_ids_by_origin(ix, origin) ==
    IF origin \in DOMAIN ix.origins THEN ix.origins[origin].asset_ids ELSE <<>>

(***************************************************************************)
(* Directory scans.  Path.glob yields the entries of an unchanged          *)
(* directory in a fixed order; the model fixes it by a rank.  build_index  *)
(* scans file_manager.assets_by_origin_dir, taken here to be the directory *)
(* in which get_origin_dir creates the origin directories.                 *)
(***************************************************************************)
NameRank(name) ==
    CASE name = "cal" -> 1
      [] name = "exp" -> 2
      [] OTHER -> 3

GlobRank(origin_id) == NameRank(origin_id[1]) * HashModulus + origin_id[2]

RECURSIVE GlobOrigins(_)
GlobOrigins(S) ==
    IF S = {} THEN <<>>
    ELSE LET o == CHOOSE x \in S : \A y \in S : GlobRank(x) <= GlobRank(y)
         IN <<o>> \o GlobOrigins(S \ {o})

GlobSpecTypes == <<"AxesSpec", "TableSpec">>

(***************************************************************************)
(* The read cache: TrendifyManager._load_assets_file.  A cache is a list   *)
(* of [file, model] entries in dict (insertion) order.                     *)
(***************************************************************************)
CacheKeys(cache) == {cache[i].file : i \in 1..Len(cache)}

CacheGet(cache, file_path) ==
    (CHOOSE i \in 1..Len(cache) : cache[i].file = file_path)

NoModel == [metadata |-> [original_dir |-> ""], assets |-> <<>>]

\* A cache that never evicts.
load_assets_file_unbounded(cache, dsk, file_path) ==
    IF file_path \in CacheKeys(cache)
    THEN [cache |-> cache, model |-> cache[CacheGet(cache, file_path)].model,
          raised |-> FALSE]
    ELSE IF file_path[2] \notin DOMAIN dsk
    THEN [cache |-> cache, model |-> NoModel, raised |-> TRUE]
    ELSE LET assets_model == dsk[file_path[2]]
         IN [cache |-> Append(cache, [file |-> file_path, model |-> assets_model]),
             model |-> assets_model, raised |-> FALSE]

\* A least-recently-used cache: a hit moves the entry to the end.
load_assets_file_lru(cache, dsk, file_path) ==
    IF file_path \in CacheKeys(cache)
    THEN LET hit == cache[CacheGet(cache, file_path)]
             Other(e) == e.file # file_path
         IN [cache |-> Append(SelectSeq(cache, Other), hit), model |-> hit.model,
             raised |-> FALSE]
    ELSE IF file_path[2] \notin DOMAIN dsk
    THEN [cache |-> cache, model |-> NoModel, raised |-> TRUE]
    ELSE LET assets_model == dsk[file_path[2]]
             added == Append(cache, [file |-> file_path, model |-> assets_model])
         IN [cache |-> IF Len(added) > max_cache_size THEN Tail(added) ELSE added,
             model |-> assets_model, raised |-> FALSE]

load_assets_file(cache, dsk, file_path) ==
    IF file_path \in CacheKeys(cache)
    THEN [cache |-> cache, model |-> cache[CacheGet(cache, file_path)].model,
          raised |-> FALSE]
    ELSE IF file_path[2] \notin DOMAIN dsk
    THEN [cache |-> cache, model |-> NoModel, raised |-> TRUE]
    ELSE LET assets_model == dsk[file_path[2]]
             added == Append(cache, [file |-> file_path, model |-> assets_model])
         IN [cache |-> IF Len(added) > max_cache_size THEN Tail(added) ELSE added,
             model |-> assets_model, raised |-> FALSE]

\* History of insertions, kept beside the cache: a file enters at the end when
\* one load puts it in the cache and leaves when that load removes it.
TrackInsertion(order, before, after, file_path) ==
    LET entered == IF file_path \in CacheKeys(before) THEN order
                   ELSE Append(order, file_path)
        Stays(f) == f \in CacheKeys(after)
    IN SelectSeq(entered, Stays)

LoadTracked(cache, order, dsk, file_path) ==
    LET ld == load_assets_file(cache, dsk, file_path)
    IN [cache |-> ld.cache, model |-> ld.model, raised |-> ld.raised,
        order |-> TrackInsertion(order, cache, ld.cache, file_path)]

(***************************************************************************)
(* Queries: get_assets_by_tag, get_assets_by_origin, get_asset_by_id.      *)
(***************************************************************************)
RECURSIVE FirstSeen(_, _, _)
FirstSeen(ix, ids, k) ==
    IF k > Len(ids) THEN <<>>
    ELSE LET rest == FirstSeen(ix, ids, k + 1)
             f == ix.assets[ids[k]].file
             NotF(x) == x # f
         IN <<f>> \o SelectSeq(rest, NotF)

TypeNameMatches(ix, asset_id, asset_type) ==
    asset_type = NoType \/ ix.assets[asset_id].type = asset_type

IsInstance(asset, asset_type) ==
    asset_type = NoType \/ IsSubclass(asset.type, asset_type)

RECURSIVE LoadPositions(_, _, _, _, _, _)
LoadPositions(ix, dsk, kept, files, k, st) ==
    IF k > Len(files) \/ st.raised THEN st
    ELSE LET file_path == files[k]
             ld == LoadTracked(st.cache, st.order, dsk, file_path)
             Here(id) == ix.assets[id].file = file_path
             here == SelectSeq(kept, Here)
             n == Len(ld.model.assets)
             bad == ld.raised \/ \E i \in 1..Len(here) : ix.assets[here[i]].position >= n
             Wanted(id) == IsInstance(ld.model.assets[ix.assets[id].position + 1],
                                      st.asset_type)
             hits == IF bad THEN <<>> ELSE SelectSeq(here, Wanted)
             found == [i \in 1..Len(hits) |->
                          ld.model.assets[ix.assets[hits[i]].position + 1]]
         IN LoadPositions(ix, dsk, kept, files, k + 1,
                [st EXCEPT !.cache = ld.cache, !.order = ld.order,
                           !.assets = @ \o found, !.ids = @ \o hits,
                           !.raised = bad])

CollectAssets(ix, dsk, cache, order, asset_ids, asset_type) ==
    IF \E i \in 1..Len(asset_ids) : asset_ids[i] \notin DOMAIN ix.assets
    THEN [cache |-> cache, order |-> order, assets |-> <<>>, ids |-> <<>>,
          raised |-> TRUE, asset_type |-> asset_type]
    ELSE LET Named(id) == TypeNameMatches(ix, id, asset_type)
             kept == SelectSeq(asset_ids, Named)
         IN LoadPositions(ix, dsk, kept, FirstSeen(ix, kept, 1), 1,
                [cache |-> cache, order |-> order, assets |-> <<>>, ids |-> <<>>,
                 raised |-> FALSE, asset_type |-> asset_type])

get_assets_by_tag(ix, dsk, cache, order, tag, asset_type) ==
    CollectAssets(ix, dsk, cache, order, get_asset_ids_by_tag(ix, tag), asset_type)

get_assets_by_origin(ix, dsk, cache, order, origin_id, asset_type) ==
    CollectAssets(ix, dsk, cache, order, get_asset_ids_by_origin(ix, origin_id),
                  asset_type)

get_asset_by_id(ix, dsk, cache, order, asset_id) ==
    IF asset_id \notin DOMAIN ix.assets
    THEN [cache |-> cache, order |-> order, assets |-> <<>>, raised |-> FALSE]
    ELSE LET ld == LoadTracked(cache, order, dsk, ix.assets[asset_id].file)
             position == ix.assets[asset_id].position
             bad == ld.raised \/ position >= Len(ld.model.assets)
         IN [cache |-> ld.cache, order |-> ld.order, raised |-> bad,
             assets |-> IF bad THEN <<>> ELSE <<ld.model.assets[position + 1]>>]

(***************************************************************************)
(* TrendifyManager.build_index.                                            *)
(***************************************************************************)
RECURSIVE IndexAssets(_, _, _, _, _)
IndexAssets(ix, origin_id, file_path, assets, k) ==
    IF k > Len(assets) THEN ix
    ELSE IndexAssets(
             add_asset(ix, AssetId(origin_id, assets[k].type, k - 1), assets[k].type,
                       file_path, k - 1, origin_id, assets[k].tags),
             origin_id, file_path, assets, k + 1)

RECURSIVE IndexOrigins(_, _, _, _)
IndexOrigins(dsk, origin_dirs, k, st) ==
    IF k > Len(origin_dirs) THEN st
    ELSE LET origin_id == origin_dirs[k]
             file_path == AssetFilePath(origin_id)
             ld == LoadTracked(st.cache, st.order, dsk, file_path)
             ix1 == [st.index EXCEPT !.origins =
                        Put(@, origin_id,
                            [asset_ids |-> <<>>,
                             directory |-> ld.model.metadata.original_dir])]
         IN IndexOrigins(dsk, origin_dirs, k + 1,
                [index |-> IndexAssets(ix1, origin_id, file_path, ld.model.assets, 1),
                 cache |-> ld.cache, order |-> ld.order])

Truthy(tag) == tag.text \notin {"", "0"}

RECURSIVE IndexSpecItems(_, _, _, _, _)
IndexSpecItems(ix, spec_type, origin_id, items, k) ==
    IF k > Len(items) THEN ix
    ELSE IndexSpecItems(
             IF Truthy(items[k].tag)
             THEN add_spec(ix, SpecId(origin_id, spec_type, k - 1), spec_type,
                           SpecFilePath(spec_type, origin_id), items[k].tag)
             ELSE ix,
             spec_type, origin_id, items, k + 1)

RECURSIVE IndexSpecFiles(_, _, _, _)
IndexSpecFiles(ix, sfiles, spec_type, origins) ==
    IF origins = <<>> THEN ix
    ELSE IndexSpecFiles(
             IndexSpecItems(ix, spec_type, Head(origins),
                            sfiles[<<spec_type, Head(origins)>>], 1),
             sfiles, spec_type, Tail(origins))

RECURSIVE IndexSpecDirs(_, _, _)
IndexSpecDirs(ix, sfiles, k) ==
    IF k > Len(GlobSpecTypes) THEN ix
    ELSE LET spec_type == GlobSpecTypes[k]
             origins == GlobOrigins({key[2] : key \in {x \in DOMAIN sfiles : x[1] = spec_type}})
         IN IndexSpecDirs(IndexSpecFiles(ix, sfiles, spec_type, origins), sfiles, k + 1)

build_index(dsk, sfiles, cache, order) ==
    LET scanned == IndexOrigins(dsk, GlobOrigins(DOMAIN dsk), 1,
                                [index |-> NewIndex, cache |-> cache, order |-> order])
    IN [index |-> IndexSpecDirs(scanned.index, sfiles, 1),
        cache |-> scanned.cache, order |-> scanned.order]

\* The index property: load the saved index, or start a new one, when unset.
IndexProperty(ixopt, ixfile) ==
    IF ixopt # <<>> THEN ixopt[1]
    ELSE IF ixfile # <<>> THEN ixfile[1]
    ELSE NewIndex

(***************************************************************************)
(* ProductSpecRegistry.add_spec with the default conflict strategy.        *)
(***************************************************************************)
DefaultStrategy(spec_type) ==
    IF spec_type = "PlotSpec" THEN "merge" ELSE "raise_if_different"

resolve_conflict(specs, existing_spec, new_spec, strategy) ==
    IF strategy = "raise_if_different"
    THEN [specs |-> specs, raised |-> existing_spec # new_spec]
    ELSE [specs |-> specs, raised |-> FALSE]

registry_add_spec(specs, spec) ==
    LET key == <<spec.type, spec.tag>>
    IN IF key \in DOMAIN specs
       THEN resolve_conflict(specs, specs[key], spec, DefaultStrategy(spec.type))
       ELSE [specs |-> Put(specs, key, spec), raised |-> FALSE]

RECURSIVE RegisterSpecs(_, _, _)
RegisterSpecs(specs, asset_specs, k) ==
    IF k > Len(asset_specs) THEN [specs |-> specs, raised |-> FALSE]
    ELSE LET r == registry_add_spec(specs, asset_specs[k])
         IN IF r.raised THEN r ELSE RegisterSpecs(r.specs, asset_specs, k + 1)

(***************************************************************************)
(* TrendifyManager._save_asset_specs and process_origin_directory.         *)
(***************************************************************************)
SpecsOfType(asset_specs, spec_type) ==
    LET Is(s) == s.type = spec_type IN SelectSeq(asset_specs, Is)

RECURSIVE IndexSavedSpecs(_, _, _, _, _)
IndexSavedSpecs(ix, spec_type, origin_id, specs, k) ==
    IF k > Len(specs) THEN ix
    ELSE IndexSavedSpecs(
             add_spec(ix, SpecId(origin_id, spec_type, k - 1), spec_type,
                      SpecFilePath(spec_type, origin_id), specs[k].tag),
             spec_type, origin_id, specs, k + 1)

RECURSIVE SaveSpecGroups(_, _, _, _)
SaveSpecGroups(st, asset_specs, origin_id, types) ==
    IF types = {} THEN st
    ELSE LET spec_type == CHOOSE t \in types : TRUE
             specs == SpecsOfType(asset_specs, spec_type)
             st1 == [spec_files |-> Put(st.spec_files, <<spec_type, origin_id>>, specs),
                     index |-> IndexSavedSpecs(st.index, spec_type, origin_id, specs, 1)]
         IN SaveSpecGroups(st1, asset_specs, origin_id, types \ {spec_type})

save_asset_specs(sfiles, ix, asset_specs, origin_id) ==
    SaveSpecGroups([spec_files |-> sfiles, index |-> ix], asset_specs, origin_id,
                   {asset_specs[k].type : k \in 1..Len(asset_specs)})

process_origin_directory(input_dir, generated, dsk, sfiles, specs, ixopt, ixfile) ==
    LET origin_id == get_origin_id(input_dir)
        same == [origin_id |-> origin_id, disk |-> dsk, spec_files |-> sfiles,
                 registry |-> specs, index |-> ixopt, raised |-> FALSE,
                 wrote |-> FALSE]
        assets_model == [metadata |-> [original_dir |-> input_dir],
                         assets |-> generated.assets]
        written == [same EXCEPT !.disk = Put(dsk, origin_id, assets_model),
                                !.wrote = TRUE]
        reg == RegisterSpecs(specs, generated.specs, 1)
        saved == save_asset_specs(sfiles, IndexProperty(ixopt, ixfile),
                                  generated.specs, origin_id)
    IN IF generated.raises THEN same
       ELSE IF generated.specs = <<>> THEN written
       ELSE IF reg.raised THEN [written EXCEPT !.registry = reg.specs, !.raised = TRUE]
       ELSE [written EXCEPT !.registry = reg.specs,
                            !.spec_files = saved.spec_files,
                            !.index = <<saved.index>>]

(***************************************************************************)
(* What a generator may give for a directory: it raises, or it returns     *)
(* (asset_specs, assets).                                                  *)
(***************************************************************************)
Point_a == [type |-> "Point2D", tags |-> <<TagA>>]
Table_ab == [type |-> "TableEntry", tags |-> <<TagA, TagB>>]

Axes_a_t1 == [type |-> "AxesSpec", tag |-> TagA, title |-> "t1"]
Axes_a_t2 == [type |-> "AxesSpec", tag |-> TagA, title |-> "t2"]

GeneratorRaises == [raises |-> TRUE, specs |-> <<>>, assets |-> <<>>]

Generated ==
    { GeneratorRaises,
      [raises |-> FALSE, specs |-> <<>>, assets |-> <<Point_a>>],
      [raises |-> FALSE, specs |-> <<Axes_a_t1>>, assets |-> <<Point_a, Table_ab>>],
      [raises |-> FALSE, specs |-> <<Axes_a_t2>>, assets |-> <<Point_a>>] }

(***************************************************************************)
(* The state after TrendifyManager.__init__ on an empty output directory.  *)
(* _max_cache_size is 20 in the source; the model scales it down so that   *)
(* three origin documents overflow the cache.                              *)
(***************************************************************************)
NoBatch == [n_procs |-> 1, caller |-> "none", rebuild_index |-> FALSE,
            inputs |-> <<>>, results |-> <<>>, task_raised |-> FALSE,
            failed_origins |-> {},
            status |-> "none", indexed |-> FALSE]

NoRoundTrip == [stage |-> "none"]

NoFilter == [op |-> "none"]

\* DataProductCollection(elements=[]) with no filter applied yet.
NoCollection == [elements |-> <<>>, last |-> NoFilter]

NoComparison == [op |-> "none"]

NoFlat == [op |-> "none"]

\* NamedCollection(): no items.
NoNamed == [items |-> EmptyDict, last |-> "none", raised |-> FALSE]

\* One collection, built on an empty list: list 1 holds its elements; no
\* collection was returned yet.
NoHeap == [lists |-> <<<<>>>>, source |-> 1, result |-> 0, last |-> "none",
           from |-> "none", made |-> 0]

\* An empty TypeInfo._import_cache in a process that has resolved nothing.
NoTypes == [cache |-> EmptyDict, made |-> 0, modules |-> {}, execs |-> <<>>,
            calls |-> 0, resolved |-> EmptyDict,
            last |-> [op |-> "none"]]

Init ==
    /\ disk = EmptyDict
    /\ spec_files = EmptyDict
    /\ index = <<>>
    /\ index_file = <<>>
    /\ file_cache = <<>>
    /\ max_cache_size = MaxCacheSize
    /\ registry = EmptyDict
    /\ pc = "idle"
    /\ batch = NoBatch
    /\ writers = EmptyDict
    /\ batches = 0
    /\ ins_order = <<>>
    /\ rt = NoRoundTrip
    /\ coll = NoCollection
    /\ typeinfo = NoTypes
    /\ cmp = NoComparison
    /\ heap = NoHeap
    /\ flat = NoFlat
    /\ named = NoNamed

(***************************************************************************)
(* process_origins and process_data.  input_dirs is any list of at most    *)
(* MaxInputs paths; its elements are drawn as the tasks reach them.        *)
(***************************************************************************)
\* What stays of a call once it is over, until the manager is called again:
\* how it ended and the origins whose generator raised.
Over(b, status) ==
    [NoBatch EXCEPT !.status = status, !.failed_origins = b.failed_origins]

StartBatch(n_procs, caller, rebuild) ==
    /\ pc = "idle"
    /\ batches < MaxBatches
    /\ batches' = batches + 1
    /\ pc' = "processing"
    /\ batch' = [NoBatch EXCEPT !.n_procs = n_procs, !.caller = caller,
                                !.rebuild_index = rebuild, !.status = "running"]
    /\ writers' = EmptyDict
    /\ UNCHANGED <<disk, spec_files, index, index_file, file_cache, max_cache_size,
                   registry, ins_order, rt, coll, typeinfo, cmp, heap, flat, named>>

process_origins(n_procs) == StartBatch(n_procs, "process_origins", FALSE)

process_data(n_procs, rebuild) == StartBatch(n_procs, "process_data", rebuild)

Wrote(w, r, i) ==
    IF r.wrote
    THEN LET f == AssetFilePath(r.origin_id)
         IN Put(w, f, (IF f \in DOMAIN w THEN w[f] ELSE {}) \cup {i})
    ELSE w

Ran(b, input_dir, generated) ==
    [b EXCEPT !.inputs = Append(@, input_dir),
              !.results = Append(@, get_origin_id(input_dir)),
              !.failed_origins = IF generated.raises
                                 THEN @ \cup {get_origin_id(input_dir)} ELSE @]

\* n_procs = 1: the tasks run in input order in the controlling process; an
\* exception of a task leaves process_origins (and process_data) at once.
SequentialTask(input_dir, generated) ==
    /\ pc = "processing"
    /\ batch.n_procs = 1
    /\ Len(batch.inputs) < MaxInputs
    /\ LET i == Len(batch.inputs) + 1
           r == process_origin_directory(input_dir, generated, disk, spec_files,
                                         registry, index, index_file)
       IN /\ disk' = r.disk
          /\ spec_files' = r.spec_files
          /\ registry' = r.registry
          /\ index' = r.index
          /\ IF r.raised
             THEN /\ pc' = "idle"
                  /\ batch' = Over(batch, "raised")
                  /\ writers' = EmptyDict
             ELSE /\ pc' = "processing"
                  /\ batch' = Ran(batch, input_dir, generated)
                  /\ writers' = Wrote(writers, r, i)
    /\ UNCHANGED <<index_file, file_cache, max_cache_size, batches, ins_order, rt, coll, typeinfo, cmp, heap, flat, named>>

\* n_procs > 1: each task runs in a worker on a pickled copy of the manager, so
\* only its files reach the controlling process; its exception comes out of
\* executor.map when process_origins collects the results.
WorkerTask(input_dir, generated) ==
    /\ pc = "processing"
    /\ batch.n_procs > 1
    /\ Len(batch.inputs) < MaxInputs
    /\ LET i == Len(batch.inputs) + 1
           r == process_origin_directory(input_dir, generated, disk, spec_files,
                                         registry, index, index_file)
       IN /\ disk' = r.disk
          /\ spec_files' = r.spec_files
          /\ writers' = Wrote(writers, r, i)
          /\ batch' = [Ran(batch, input_dir, generated) EXCEPT
                          !.task_raised = @ \/ r.raised]
    /\ UNCHANGED <<index, index_file, file_cache, max_cache_size, registry, pc,
                   batches, ins_order, rt, coll, typeinfo, cmp, heap, flat, named>>

ReturnOrigins ==
    /\ pc = "processing"
    /\ IF batch.task_raised
       THEN /\ batch' = Over(batch, "raised")
            /\ pc' = "idle"
       ELSE /\ batch' = Over(batch, "returned")
            /\ pc' = IF batch.caller = "process_data" /\ batch.rebuild_index
                     THEN "indexing" ELSE "idle"
    /\ writers' = EmptyDict
    /\ UNCHANGED <<disk, spec_files, index, index_file, file_cache, max_cache_size,
                   registry, batches, ins_order, rt, coll, typeinfo, cmp, heap, flat, named>>

Rebuild ==
    LET built == build_index(disk, spec_files, file_cache, ins_order)
    IN /\ index' = <<built.index>>
       /\ index_file' = <<built.index>>
       /\ file_cache' = built.cache
       /\ ins_order' = built.order
       /\ pc' = "idle"
       /\ UNCHANGED <<disk, spec_files, max_cache_size, registry, writers, batches, rt, coll, typeinfo, cmp, heap, flat, named>>

BuildIndex ==
    /\ pc = "idle"
    /\ Rebuild
    /\ batch' = NoBatch

ProcessDataBuildIndex ==
    /\ pc = "indexing"
    /\ Rebuild
    /\ batch' = [batch EXCEPT !.indexed = TRUE]

(***************************************************************************)
(* Reads.                                                                  *)
(***************************************************************************)
TheIndex == IndexProperty(index, index_file)

Answered(r) ==
    /\ index' = <<TheIndex>>
    /\ file_cache' = r.cache
    /\ ins_order' = r.order
    /\ batch' = NoBatch
    /\ UNCHANGED <<disk, spec_files, index_file, max_cache_size, registry, pc,
                   writers, batches, rt, coll, typeinfo, cmp, heap, flat, named>>

GetAssetsByTag(tag, asset_type) ==
    /\ pc = "idle"
    /\ Answered(get_assets_by_tag(TheIndex, disk, file_cache, ins_order, tag, asset_type))

GetAssetsByOrigin(origin_id, asset_type) ==
    /\ pc = "idle"
    /\ Answered(get_assets_by_origin(TheIndex, disk, file_cache, ins_order, origin_id,
                                     asset_type))

GetAssetById(asset_id) ==
    /\ pc = "idle"
    /\ Answered(get_asset_by_id(TheIndex, disk, file_cache, ins_order, asset_id))

clear_cache ==
    /\ pc = "idle"
    /\ file_cache' = <<>>
    /\ ins_order' = <<>>
    /\ batch' = NoBatch
    /\ UNCHANGED <<disk, spec_files, index, index_file, max_cache_size, registry, pc,
                   writers, batches, rt, coll, typeinfo, cmp, heap, flat, named>>

TypeArgs == AssetTypes \cup {NoType}

\* input_dirs names each directory once: the paths not yet handed to a task.
Remaining == InputPaths \ {batch.inputs[i] : i \in 1..Len(batch.inputs)}

Next ==
    \/ \E n \in 1..2 : process_origins(n)
    \/ \E n \in 1..2, rebuild \in BOOLEAN : process_data(n, rebuild)
    \/ \E p \in Remaining, g \in Generated : SequentialTask(p, g)
    \/ \E p \in Remaining, g \in Generated : WorkerTask(p, g)
    \/ ReturnOrigins
    \/ ProcessDataBuildIndex
    \/ BuildIndex
    \/ \E t \in Tags, ty \in TypeArgs : GetAssetsByTag(t, ty)
    \/ \E o \in OriginIds, ty \in TypeArgs : GetAssetsByOrigin(o, ty)
    \/ \E a \in DOMAIN TheIndex.assets : GetAssetById(a)
    \/ clear_cache

Spec == Init /\ [][Next]_vars

(***************************************************************************)
(* A manager opened on an output directory in which an earlier manager     *)
(* processed every origin and built the index: three origin documents are  *)
(* on disk, the index file is saved, nothing is cached yet, and one more   *)
(* processing call is left.  TypeArgs and Tags are the arguments of the    *)
(* reads, as in Next.                                                      *)
(***************************************************************************)
OriginDir(origin_id) == CHOOSE p \in Paths : get_origin_id(p) = origin_id

StoredDocs == [OriginIds -> {<<Point_a>>, <<Point_a, Table_ab>>}]

InitCache ==
    /\ max_cache_size \in 1..MaxCacheSize
    /\ \E docs \in StoredDocs :
           disk = [o \in OriginIds |->
                      [metadata |-> [original_dir |-> OriginDir(o)],
                       assets |-> docs[o]]]
    /\ spec_files = EmptyDict
    /\ index = <<>>
    /\ index_file = <<build_index(disk, spec_files, <<>>, <<>>).index>>
    /\ file_cache = <<>>
    /\ registry = EmptyDict
    /\ pc = "idle"
    /\ batch = NoBatch
    /\ writers = EmptyDict
    /\ batches = MaxBatches - 1
    /\ ins_order = <<>>
    /\ rt = NoRoundTrip
    /\ coll = NoCollection
    /\ typeinfo = NoTypes
    /\ cmp = NoComparison
    /\ heap = NoHeap
    /\ flat = NoFlat
    /\ named = NoNamed

\* process_data over one directory with n_procs = 1, from call to return: the
\* task, then the index build when rebuild_index is set.
ProcessDataOne(input_dir, generated, rebuild) ==
    /\ pc = "idle"
    /\ batches < MaxBatches
    /\ batches' = batches + 1
    /\ LET called == [NoBatch EXCEPT !.caller = "process_data",
                                     !.rebuild_index = rebuild, !.status = "running"]
           r == process_origin_directory(input_dir, generated, disk, spec_files,
                                         registry, index, index_file)
           built == build_index(r.disk, r.spec_files, file_cache, ins_order)
       IN /\ disk' = r.disk
          /\ spec_files' = r.spec_files
          /\ registry' = r.registry
          /\ IF ~r.raised /\ rebuild
             THEN /\ index' = <<built.index>>
                  /\ index_file' = <<built.index>>
                  /\ file_cache' = built.cache
                  /\ ins_order' = built.order
                  /\ batch' = [Over(Ran(called, input_dir, generated), "returned")
                                  EXCEPT !.indexed = TRUE]
             ELSE /\ index' = r.index
                  /\ UNCHANGED <<index_file, file_cache, ins_order>>
                  /\ batch' = IF r.raised THEN Over(called, "raised")
                              ELSE Over(Ran(called, input_dir, generated), "returned")
    /\ UNCHANGED <<max_cache_size, pc, writers, rt, coll, typeinfo, cmp, heap, flat, named>>

NextCache ==
    \/ \E p \in InputPaths, g \in Generated, rebuild \in BOOLEAN :
           ProcessDataOne(p, g, rebuild)
    \/ BuildIndex
    \/ \E t \in Tags, ty \in TypeArgs : GetAssetsByTag(t, ty)
    \/ \E o \in OriginIds, ty \in TypeArgs : GetAssetsByOrigin(o, ty)
    \/ \E a \in DOMAIN TheIndex.assets : GetAssetById(a)
    \/ clear_cache

SpecCache == InitCache /\ [][NextCache]_vars


(***************************************************************************)
(* The index used directly: callers of manager.index add assets, specs and *)
(* asset files one at a time, between index builds.                        *)
(***************************************************************************)
Mutated(ix) ==
    /\ pc = "idle"
    /\ index' = <<ix>>
    /\ batch' = NoBatch
    /\ UNCHANGED <<disk, spec_files, index_file, file_cache, max_cache_size, registry,
                   pc, writers, batches, ins_order, rt, coll, typeinfo, cmp, heap, flat, named>>

AddAsset(asset_id, tags) ==
    Mutated(add_asset(TheIndex, asset_id, asset_id[2], AssetFilePath(asset_id[1]),
                      asset_id[3], asset_id[1], tags))

AddSpec(spec_id, tag) ==
    Mutated(add_spec(TheIndex, spec_id, spec_id[2],
                     SpecFilePath(spec_id[2], spec_id[1]), tag))

AddAssetFile(origin, tag) == Mutated(add_asset_file(TheIndex, AssetFilePath(origin), tag))

RunOrigin == get_origin_id("a/run")

AddedAssetIds == {AssetId(RunOrigin, "Point2D", 0), AssetId(RunOrigin, "TableEntry", 2)}

AddedSpecIds == {SpecId(RunOrigin, "AxesSpec", 0)}

AddedTags == {<<TagA>>, <<TagA, TagB>>, <<TagA, TagA>>}

NextIndex ==
    \/ \E a \in AddedAssetIds, tags \in AddedTags : AddAsset(a, tags)
    \/ \E sp \in AddedSpecIds, t \in {TagA, TagB} : AddSpec(sp, t)
    \/ \E t \in {TagA, TagB} : AddAssetFile(RunOrigin, t)
    \/ BuildIndex

InitIndex ==
    /\ InitCache
    /\ max_cache_size = MaxCacheSize
    /\ \A o \in OriginIds : disk[o].assets = <<Point_a, Table_ab>>

SpecIndex == InitIndex /\ [][NextIndex]_vars


(***************************************************************************)
(* Typed documents: SerializableModel, TypeInfo and SerializableCollection.*)
(* A class is its (module, name); an instance is its class and the values  *)
(* of its fields; a document is the parsed JSON of model_dump_json.        *)
(***************************************************************************)
AssetsModule == "trendify.assets.assets"
ProductsModule == "trendify.products"
ModelModule == "typeflow.serialization.serializable_model"

Class(module, name) == [module |-> module, name |-> name]

SerializableModelClass == Class(ModelModule, "SerializableModel")

RecordClasses == {Class(AssetsModule, n) : n \in AssetTypes}

\* trendify.products keeps older classes of the same names, plain BaseModels.
LegacyClasses == {Class(ProductsModule, "Point2D"), Class(ProductsModule, "TableEntry")}

Importable == RecordClasses \cup LegacyClasses \cup {SerializableModelClass}

IsSerializableModel(cls) == cls = SerializableModelClass \/ cls \in RecordClasses

ModelFields(cls) ==
    IF cls = SerializableModelClass THEN {}
    ELSE IF cls.name = "Point2D" THEN {"tags", "x"}
    ELSE IF cls.name = "TableEntry" THEN {"tags", "row"}
    ELSE {"tags"}

from_obj(obj) == [module_spec |-> obj.class.module, base_name |-> obj.class.name]

get_import(type_info) ==
    LET cls == Class(type_info.module_spec, type_info.base_name)
    IN IF cls \in Importable THEN [raised |-> FALSE, cls |-> cls]
       ELSE [raised |-> TRUE, cls |-> SerializableModelClass]

(***************************************************************************)
(* typeflow TypeInfo: descriptors, the class-level import cache and        *)
(* get_import.  A type object is its structure (origin class, arguments,   *)
(* metadata) and its identity: a class imported from a module is one       *)
(* object (oid 0); every subscription origin[args] makes a new object.     *)
(***************************************************************************)
MaxCalls == 3

BuiltinsModule == "builtins"
TypingModule == "typing"

TypeInfo(module_spec, base_name, type_params, version, extra_args) ==
    [module_spec |-> module_spec, base_name |-> base_name, type_params |-> type_params,
     version |-> version, extra_args |-> extra_args]

NoVersion == "None"

IntInfo == TypeInfo(BuiltinsModule, "int", <<>>, NoVersion, <<>>)

\* TypeInfo.from_annotation(List[int]): the origin is builtins.list.
ListOfIntInfo == TypeInfo(BuiltinsModule, "list", <<IntInfo>>, NoVersion, <<>>)

Point2DInfo == TypeInfo(AssetsModule, "Point2D", <<>>, "1.0.0", <<>>)

AnnotatedInfo(meta) == TypeInfo(TypingModule, "Annotated", <<IntInfo>>, NoVersion, <<meta>>)

\* A descriptor whose base takes no parameters: int[int] raises TypeError.
IntOfIntInfo == TypeInfo(BuiltinsModule, "int", <<IntInfo>>, NoVersion, <<>>)

\* Descriptors of attributes of Python files.
ShapeFileInfo == TypeInfo("plugins/shapes.py", "Shape", <<>>, NoVersion, <<>>)
BrokenFileInfo == TypeInfo("plugins/broken.py", "Shape", <<>>, NoVersion, <<>>)

Descriptors ==
    {IntInfo, ListOfIntInfo, Point2DInfo, AnnotatedInfo("gt0"), AnnotatedInfo("lt9"),
     IntOfIntInfo, ShapeFileInfo, BrokenFileInfo}

RECURSIVE cache_key(_)
cache_key(d) ==
    <<d.module_spec, d.base_name,
      [i \in 1..Len(d.type_params) |-> cache_key(d.type_params[i])]>>

\* What import_module and getattr find.
ModuleAttributes ==
    Importable \cup {Class(BuiltinsModule, "int"), Class(BuiltinsModule, "list"),
                     Class(TypingModule, "Annotated"), Class("plugins/shapes.py", "Shape")}

Subscriptable(cls) ==
    cls \in {Class(BuiltinsModule, "list"), Class(TypingModule, "Annotated")}

TypeObject(origin, args, metadata, oid) ==
    [structure |-> [origin |-> origin, args |-> args, metadata |-> metadata], oid |-> oid]

ClassObject(cls) == TypeObject(cls, <<>>, <<>>, 0)

NoObject == ClassObject(Class("", ""))

\* The import state of the process: TypeInfo._import_cache, the number of
\* parametrized type objects made, the file modules registered in sys.modules
\* and the files executed so far.
ImportCache == [cache |-> typeinfo.cache, made |-> typeinfo.made,
                modules |-> typeinfo.modules, execs |-> typeinfo.execs]

\* Python files that exist: one defines the class Shape, the other raises
\* while it is executed.
ShapesFile == "plugins/shapes.py"
BrokenFile == "plugins/broken.py"
ModuleFiles == {ShapesFile, BrokenFile}

\* Path(self.module_spec).exists() and self.module_spec.endswith(".py")
IsModuleFile(module_spec) == module_spec \in ModuleFiles

\* hash(str(path)), fixed for the life of the process.
FileHash(path) == IF path = ShapesFile THEN 7301 ELSE 2960

\* module_name = f"_dynamic_import_{hash(str(path))}"
DynamicName(path) == <<"_dynamic_import_", FileHash(path)>>

\* A loader that executes the file whether or not sys.modules has the name.
LoadFileModule_again(path, st) ==
    [raised |-> path = BrokenFile,
     st |-> [st EXCEPT !.modules = @ \cup {DynamicName(path)},
                       !.execs = Append(@, path)]]

\* The module of a file: the one in sys.modules under the derived name, or
\* else a new module, registered and then executed.
LoadFileModule(path, st) ==
    IF DynamicName(path) \in st.modules THEN [raised |-> FALSE, st |-> st]
    ELSE [raised |-> path = BrokenFile,
          st |-> [st EXCEPT !.modules = @ \cup {DynamicName(path)},
                            !.execs = Append(@, path)]]

\* import_module(self.module_spec) for a module that is not a file.
LoadModule(module_spec, st) ==
    IF IsModuleFile(module_spec) THEN LoadFileModule(module_spec, st)
    ELSE [raised |-> FALSE, st |-> st]

RECURSIVE TypeInfo_get_import(_, _, _, _)
RECURSIVE ImportParams(_, _, _)
\* imported_params = [param.get_import() for param in self.type_params]
ImportParams(type_params, k, st) ==
    IF k > Len(type_params) THEN [raised |-> FALSE, objs |-> <<>>, st |-> st]
    ELSE LET first == TypeInfo_get_import(type_params[k], TRUE, FALSE, st)
             rest == ImportParams(type_params, k + 1, first.st)
         IN IF first.raised THEN [raised |-> TRUE, objs |-> <<>>, st |-> first.st]
            ELSE [rest EXCEPT !.objs = <<first.obj>> \o @]

\* The body of get_import after the cache lookup, without the cache writes.
ResolveImport(d, st0) ==
    LET base == Class(d.module_spec, d.base_name)
        module == LoadModule(d.module_spec, st0)
        st == module.st
    IN IF module.raised \/ base \notin ModuleAttributes
       THEN [raised |-> TRUE, obj |-> NoObject, st |-> st]
       ELSE IF d.type_params = <<>>
       THEN [raised |-> FALSE, obj |-> ClassObject(base), st |-> st]
       ELSE LET ps == ImportParams(d.type_params, 1, st)
                applies == /\ Subscriptable(base)
                           /\ base = Class(TypingModule, "Annotated") => d.extra_args # <<>>
                args == [i \in 1..Len(ps.objs) |-> ps.objs[i].structure]
            IN IF ps.raised THEN [raised |-> TRUE, obj |-> NoObject, st |-> ps.st]
               ELSE IF applies
               THEN [raised |-> FALSE,
                     obj |-> TypeObject(base, args, d.extra_args, ps.st.made + 1),
                     st |-> [ps.st EXCEPT !.made = @ + 1]]
               ELSE [raised |-> FALSE, obj |-> ClassObject(base), st |-> ps.st]

TypeInfo_get_import(d, use_cache, refresh, st) ==
    IF use_cache /\ ~refresh /\ cache_key(d) \in DOMAIN st.cache
    THEN [raised |-> FALSE, obj |-> st.cache[cache_key(d)], st |-> st]
    ELSE LET r == ResolveImport(d, st)
         IN IF r.raised \/ ~use_cache THEN r
            ELSE [r EXCEPT !.st.cache = Put(@, cache_key(d), r.obj)]

ElsewhereOfTypes ==
    UNCHANGED <<disk, spec_files, index, index_file, file_cache, max_cache_size,
                registry, pc, batch, writers, batches, ins_order, rt, coll, cmp, heap, flat, named>>

\* Every resolution kept in typeinfo.resolved is marked live while the import
\* cache has not been cleared since a cache-using call made it.
GetImport(d, use_cache, refresh) ==
    /\ typeinfo.calls < MaxCalls
    /\ LET r == TypeInfo_get_import(d, use_cache, refresh,
                                    ImportCache)
       IN typeinfo' =
              [cache |-> r.st.cache, made |-> r.st.made, modules |-> r.st.modules,
               execs |-> r.st.execs, calls |-> typeinfo.calls + 1,
               resolved |-> IF r.raised THEN typeinfo.resolved
                            ELSE Put(typeinfo.resolved, d,
                                     [obj |-> r.obj, live |-> use_cache]),
               last |-> [op |-> "get_import", descriptor |-> d, use_cache |-> use_cache,
                         refresh |-> refresh, raised |-> r.raised, obj |-> r.obj]]
    /\ ElsewhereOfTypes

TypeInfo_clear_cache ==
    /\ typeinfo.cache # EmptyDict
    /\ typeinfo' = [typeinfo EXCEPT
                       !.cache = EmptyDict,
                       !.resolved = [d \in DOMAIN @ |-> [@[d] EXCEPT !.live = FALSE]],
                       !.last = [op |-> "clear_cache"]]
    /\ ElsewhereOfTypes

NextTypes ==
    \/ \E d \in Descriptors, use_cache, refresh \in BOOLEAN : GetImport(d, use_cache, refresh)
    \/ TypeInfo_clear_cache

SpecTypes == Init /\ [][NextTypes]_vars

(***************************************************************************)
(* Documents: model_dump_json, and model_validate on a parsed document.    *)
(***************************************************************************)
\* JSON has arrays only: a tuple is written as an array and read as a list.
json_value(v) == IF v.kind = "tuple" THEN [v EXCEPT !.kind = "list"] ELSE v

model_dump_json(obj) ==
    [type_info |-> from_obj(obj),
     values |-> [f \in DOMAIN obj.values |->
                    IF f = "tags"
                    THEN [i \in 1..Len(obj.values[f]) |-> json_value(obj.values[f][i])]
                    ELSE json_value(obj.values[f])]]

Hashable(v) == v.kind # "list"

validate_tags(tags) == SelectSeq(tags, Hashable)

ValidationError == [raised |-> TRUE, class |-> SerializableModelClass, values |-> EmptyDict]

\* BaseModel.model_validate: the fields of cls are read from the document, its
\* other keys are ignored, and a missing required field is an error.
BaseValidate(cls, obj) ==
    IF ~(ModelFields(cls) \subseteq DOMAIN obj.values) THEN ValidationError
    ELSE [raised |-> FALSE, class |-> cls,
          values |-> [f \in ModelFields(cls) |->
                         IF f = "tags" THEN validate_tags(obj.values[f])
                         ELSE obj.values[f]]]

RECURSIVE model_validate(_, _)
model_validate(cls, obj) ==
    LET type_info == obj.type_info
        imported == get_import(type_info)
    IN IF /\ (cls = SerializableModelClass \/ cls.name # type_info.base_name)
          /\ ~imported.raised
          /\ IsSerializableModel(imported.cls)
          /\ imported.cls # cls
          /\ ~model_validate(imported.cls, obj).raised
       THEN model_validate(imported.cls, obj)
       ELSE BaseValidate(cls, obj)

from_json(cls, json_data) == model_validate(cls, json_data)

\* TypeInfo(**type_info_data) of a document.
DescriptorOf(type_info) ==
    TypeInfo(type_info.module_spec, type_info.base_name, <<>>, NoVersion, <<>>)

\* The import cache once cls.model_validate(obj) is over: get_import is called
\* when cls is the base class or bears another name than the descriptor.
ImportCacheAfter(cls, obj, st) ==
    IF cls = SerializableModelClass \/ cls.name # obj.type_info.base_name
    THEN TypeInfo_get_import(DescriptorOf(obj.type_info), TRUE, FALSE, st).st
    ELSE st

RECURSIVE ImportCacheAfterItems(_, _, _)
ImportCacheAfterItems(items, k, st) ==
    IF k > Len(items) THEN st
    ELSE ImportCacheAfterItems(items, k + 1,
                               ImportCacheAfter(SerializableModelClass, items[k], st))

\* SerializableCollection.model_validate: each item that carries a type_info
\* goes through SerializableModel.model_validate.
collection_from_json(items) ==
    [i \in 1..Len(items) |-> model_validate(SerializableModelClass, items[i])]

TagPair == [kind |-> "tuple", text |-> "('a', 'b')"]

RoundTripTags == {<<>>, <<TagA>>, <<TagInt1, TagA>>, <<TagPair>>, <<TagA, TagPair>>}

Scalars == {[kind |-> "float", text |-> "1.5"], [kind |-> "str", text |-> "late"]}

ValuesOf(cls) ==
    {[f \in ModelFields(cls) |-> IF f = "tags" THEN tags ELSE v] :
        tags \in RoundTripTags, v \in Scalars}

Instances == UNION {{[class |-> cls, values |-> v] : v \in ValuesOf(cls)} :
                       cls \in RecordClasses}

Elsewhere == UNCHANGED <<disk, spec_files, index, index_file, file_cache, max_cache_size,
                         registry, pc, batch, writers, batches, ins_order, coll, typeinfo, cmp, heap, flat, named>>

Saved(via, objs) ==
    /\ rt.stage = "none"
    /\ rt' = [stage |-> "saved", via |-> via, objs |-> objs,
              docs |-> [i \in 1..Len(objs) |-> model_dump_json(objs[i])],
              loaded |-> <<>>]
    /\ Elsewhere

SaveModel(obj) == Saved("model", <<obj>>)

SaveCollection(first, second) == Saved("collection", <<first, second>>)

ElsewhereOfDocuments ==
    UNCHANGED <<disk, spec_files, index, index_file, file_cache, max_cache_size,
                registry, pc, batch, writers, batches, ins_order, coll, cmp, heap, flat, named>>

LoadModel ==
    /\ rt.stage = "saved"
    /\ rt.via = "model"
    /\ rt' = [rt EXCEPT !.stage = "loaded",
                        !.loaded = <<from_json(SerializableModelClass, rt.docs[1])>>]
    /\ typeinfo' = [typeinfo EXCEPT !.cache =
                        ImportCacheAfter(SerializableModelClass, rt.docs[1],
                                         ImportCache).cache]
    /\ ElsewhereOfDocuments

LoadCollection ==
    /\ rt.stage = "saved"
    /\ rt.via = "collection"
    /\ rt' = [rt EXCEPT !.stage = "loaded", !.loaded = collection_from_json(rt.docs)]
    /\ typeinfo' = [typeinfo EXCEPT !.cache =
                        ImportCacheAfterItems(rt.docs, 1, ImportCache).cache]
    /\ ElsewhereOfDocuments

\* Documents written elsewhere: the descriptor names a module that is not
\* installed, a class its module does not have, or a class that is not a
\* SerializableModel.
ForeignDescriptors ==
    {[module_spec |-> "trendify.old_assets", base_name |-> "Point2D"],
     [module_spec |-> AssetsModule, base_name |-> "Gone"],
     [module_spec |-> ProductsModule, base_name |-> "TableEntry"]}

ForeignDocuments ==
    {[model_dump_json(obj) EXCEPT !.type_info = d] :
        obj \in Instances, d \in ForeignDescriptors}

ReceiveDocument(doc) ==
    /\ rt.stage = "none"
    /\ rt' = [stage |-> "saved", via |-> "foreign", objs |-> <<>>, docs |-> <<doc>>,
              loaded |-> <<>>]
    /\ Elsewhere

\* cls.from_json on a received document.
LoadDocument(cls) ==
    /\ rt.stage = "saved"
    /\ rt.via = "foreign"
    /\ rt' = [rt EXCEPT !.stage = "loaded", !.loaded = <<from_json(cls, rt.docs[1])>>]
    /\ typeinfo' = [typeinfo EXCEPT !.cache =
                        ImportCacheAfter(cls, rt.docs[1], ImportCache).cache]
    /\ ElsewhereOfDocuments

\* A model_validate that dumps every instance and validates the dump.
model_validate_dumping(cls, obj, st) ==
    LET dumped == [type_info |-> from_obj(obj), values |-> obj.values]
    IN [result |-> model_validate(cls, dumped), itself |-> FALSE,
        read_type_info |-> TRUE, st |-> ImportCacheAfter(cls, dumped, st)]

\* cls.model_validate(obj) with obj a SerializableModel instance: obj itself
\* when isinstance(obj, cls), else obj.model_dump(mode="python"), which
\* computes type_info, validated as a document.
model_validate_instance(cls, obj, st) ==
    IF IsSubclass(obj.class.name, cls.name)
    THEN [result |-> [raised |-> FALSE, class |-> obj.class, values |-> obj.values],
          itself |-> TRUE, read_type_info |-> FALSE, st |-> st]
    ELSE LET dumped == [type_info |-> from_obj(obj), values |-> obj.values]
         IN [result |-> model_validate(cls, dumped), itself |-> FALSE,
             read_type_info |-> TRUE, st |-> ImportCacheAfter(cls, dumped, st)]

ValidateInstance(cls, obj) ==
    /\ rt.stage = "none" \/ (rt.stage = "loaded" /\ rt.via = "model")
    /\ LET v == model_validate_instance(cls, obj, ImportCache)
       IN /\ rt' = [stage |-> "validated", via |-> "instance", cls |-> cls,
                    objs |-> <<obj>>, docs |-> <<>>, loaded |-> <<v.result>>,
                    itself |-> v.itself, read_type_info |-> v.read_type_info]
          /\ typeinfo' = [typeinfo EXCEPT !.cache = v.st.cache]
    /\ ElsewhereOfDocuments

NextRT ==
    \/ \E obj \in Instances : SaveModel(obj)
    \/ LoadModel
    \/ \E first, second \in Instances : SaveCollection(first, second)
    \/ LoadCollection
    \/ \E doc \in ForeignDocuments : ReceiveDocument(doc)
    \/ \E cls \in RecordClasses \cup {SerializableModelClass} : LoadDocument(cls)
    \/ \E cls \in RecordClasses \cup {SerializableModelClass}, obj \in Instances :
           ValidateInstance(cls, obj)

SpecRT == Init /\ [][NextRT]_vars


(***************************************************************************)
(* trendify.products.DataProductCollection.  A product is an object (oid)  *)
(* of a DataProduct subclass with its tag list; the collection holds a     *)
(* list of products.                                                       *)
(***************************************************************************)
MaxElements == 3

NoTag == [kind |-> "None", text |-> "None"]

ProductTypes == {"DataProduct", "XYData", "Point2D", "TableEntry"}

ProductParent(t) ==
    CASE t = "Point2D" -> "XYData"
      [] t = "XYData" -> "DataProduct"
      [] t = "TableEntry" -> "DataProduct"
      [] OTHER -> "BaseModel"

RECURSIVE IsProductSubclass(_, _)
IsProductSubclass(t, base) ==
    IF t = base THEN TRUE
    ELSE IF t = "BaseModel" THEN FALSE
    ELSE IsProductSubclass(ProductParent(t), base)

isinstance(e, object_type) == IsProductSubclass(e.type, object_type)

TagIn(tag, tags) == \E i \in 1..Len(tags) : tags[i] = tag

drop_products(elements, tag, object_type) ==
    LET NotType(e) == ~isinstance(e, object_type)
        NotTag(e) == ~TagIn(tag, e.tags)
        NotBoth(e) == ~(TagIn(tag, e.tags) /\ isinstance(e, object_type))
    IN CASE tag = NoTag /\ object_type = NoType -> elements
         [] tag = NoTag /\ object_type # NoType -> SelectSeq(elements, NotType)
         [] tag # NoTag /\ object_type = NoType -> SelectSeq(elements, NotTag)
         [] OTHER -> SelectSeq(elements, NotBoth)

\* Keeps every match but the first.
get_products_skipping(elements, tag, object_type) ==
    LET HasType(e) == object_type = NoType \/ isinstance(e, object_type)
        WithTag(e) == tag = NoTag \/ TagIn(tag, e.tags)
        Both(e) == WithTag(e) /\ HasType(e)
        kept == SelectSeq(elements, Both)
    IN IF kept = <<>> THEN kept ELSE Tail(kept)

get_products(elements, tag, object_type) ==
    LET HasType(e) == isinstance(e, object_type)
        WithTag(e) == TagIn(tag, e.tags)
        Both(e) == TagIn(tag, e.tags) /\ isinstance(e, object_type)
    IN CASE tag = NoTag /\ object_type = NoType -> elements
         [] tag = NoTag /\ object_type # NoType -> SelectSeq(elements, HasType)
         [] tag # NoTag /\ object_type = NoType -> SelectSeq(elements, WithTag)
         [] OTHER -> SelectSeq(elements, Both)

\* The products a caller makes: a class with fields and a tag list.
ProductKinds ==
    {[type |-> "Point2D", tags |-> <<TagA>>],
     [type |-> "Point2D", tags |-> <<TagA, TagB>>],
     [type |-> "TableEntry", tags |-> <<TagB>>],
     [type |-> "TableEntry", tags |-> <<>>]}

FilterTags == {NoTag, TagA, TagB}

FilterTypes == {NoType, "XYData", "Point2D", "TableEntry"}

ElsewhereOfCollection ==
    UNCHANGED <<disk, spec_files, index, index_file, file_cache, max_cache_size,
                registry, pc, batch, writers, batches, ins_order, rt, typeinfo, cmp, heap, flat, named>>

\* collection.add_products(product): a new object is appended.
AddProducts(kind) ==
    /\ Len(coll.elements) < MaxElements
    /\ coll' = [elements |-> Append(coll.elements,
                                     [oid |-> Len(coll.elements) + 1,
                                      type |-> kind.type, tags |-> kind.tags]),
                last |-> NoFilter]
    /\ ElsewhereOfCollection

Filtered(op, source, tag, object_type, elements) ==
    [coll EXCEPT !.last = [op |-> op, source |-> source, tag |-> tag,
                           object_type |-> object_type, elements |-> elements]]

GetProducts(tag, object_type) ==
    /\ coll' = Filtered("get", coll.elements, tag, object_type,
                        get_products(coll.elements, tag, object_type))
    /\ ElsewhereOfCollection

DropProducts(tag, object_type) ==
    /\ coll' = Filtered("drop", coll.elements, tag, object_type,
                        drop_products(coll.elements, tag, object_type))
    /\ ElsewhereOfCollection

\* result.get_products(...) on the collection the last filter returned.
GetProductsOfResult(tag, object_type) ==
    /\ coll.last.op # "none"
    /\ coll' = Filtered("get", coll.last.elements, tag, object_type,
                        get_products(coll.last.elements, tag, object_type))
    /\ ElsewhereOfCollection

NextCollection ==
    \/ \E kind \in ProductKinds : AddProducts(kind)
    \/ \E tag \in FilterTags, ty \in FilterTypes : GetProducts(tag, ty)
    \/ \E tag \in FilterTags, ty \in FilterTypes : DropProducts(tag, ty)
    \/ \E tag \in FilterTags, ty \in FilterTypes : GetProductsOfResult(tag, ty)

SpecCollection == Init /\ [][NextCollection]_vars

(***************************************************************************)
(* What the reads would answer in the current state.                       *)
(***************************************************************************)
ByTag(tag, asset_type) ==
    get_assets_by_tag(TheIndex, disk, file_cache, ins_order, tag, asset_type)

ByOrigin(origin_id, asset_type) ==
    get_assets_by_origin(TheIndex, disk, file_cache, ins_order, origin_id, asset_type)

\* The records stored in the origin documents, as <<origin id, position>>.
Stored == UNION {{<<o, k>> : k \in 1..Len(disk[o].assets)} : o \in DOMAIN disk}

StoredRecord(x) == disk[x[1]].assets[x[2]]

HasTag(asset, tag) == \E i \in 1..Len(asset.tags) : asset.tags[i] = tag

Occurrences(s, x) == Cardinality({i \in 1..Len(s) : s[i] = x})

Records == {Point_a, Table_ab}

(***************************************************************************)
(* C3: when the generator raises for an origin, process_origins still      *)
(* returns (no exception leaves the call), and once process_data has       *)
(* rebuilt the index a query by that origin's id answers the empty list.   *)
(***************************************************************************)
GeneratorFailureIsolated ==
    /\ batch.failed_origins # {} => batch.status # "raised"
    /\ (pc = "idle" /\ batch.indexed) =>
           \A o \in batch.failed_origins :
               /\ ~ByOrigin(o, NoType).raised
               /\ ByOrigin(o, NoType).assets = <<>>

(***************************************************************************)
(* C4: process_origins never ends by raising: it gives one origin id per   *)
(* input path, in input order, whatever the outcome of each task.          *)
(***************************************************************************)
ReturnsOneIdPerInput ==
    /\ batch.status # "raised"
    /\ batch.results = [i \in 1..Len(batch.inputs) |-> get_origin_id(batch.inputs[i])]

(***************************************************************************)
(* C5: within one process_origins call no origin document is written by    *)
(* more than one task.                                                     *)
(***************************************************************************)
WriteOncePerOrigin == \A f \in DOMAIN writers : Cardinality(writers[f]) <= 1

(***************************************************************************)
(* C6: while process_data is still processing origins, the index of the    *)
(* controlling process is neither constructed nor mutated.                 *)
(***************************************************************************)
IndexUntouchedWhileProcessing ==
    [][(pc = "processing" /\ batch.caller = "process_data") => index' = index]_vars

(***************************************************************************)
(* C7: once process_data has processed the origins and rebuilt the index,  *)
(* get_assets_by_tag(t) answers exactly the stored records whose tag list  *)
(* contains t: each of them once and nothing else.                         *)
(***************************************************************************)
TagQueryExact ==
    (pc = "idle" /\ batch.indexed) =>
        \A t \in Tags :
            /\ ~ByTag(t, NoType).raised
            /\ \A r \in Records :
                   Occurrences(ByTag(t, NoType).assets, r) =
                   Cardinality({x \in Stored : StoredRecord(x) = r /\ HasTag(r, t)})

(***************************************************************************)
(* C8: with a type filter T the queries answer every candidate whose       *)
(* concrete type is T or a subtype of T.                                   *)
(***************************************************************************)
OfType(assets, asset_type) ==
    LET Is(a) == IsSubclass(a.type, asset_type) IN SelectSeq(assets, Is)

SubtypeFilter ==
    (pc = "idle" /\ index # <<>>) =>
        \A ty \in AssetTypes :
            /\ \A t \in Tags :
                   ~ByTag(t, NoType).raised =>
                       ByTag(t, ty).assets = OfType(ByTag(t, NoType).assets, ty)
            /\ \A o \in OriginIds :
                   ~ByOrigin(o, NoType).raised =>
                       ByOrigin(o, ty).assets = OfType(ByOrigin(o, NoType).assets, ty)

(***************************************************************************)
(* C9: whenever an operation has returned, the read cache holds at most    *)
(* max_cache_size documents, whatever loads (queries, get_asset_by_id,     *)
(* build_index) and clear_cache calls came before.                         *)
(***************************************************************************)
CacheBounded == Len(file_cache) <= max_cache_size

\* process_data has just rebuilt the index over more documents than fit, and
\* the cache is full.
CacheBoundedWitness ==
    /\ pc = "idle"
    /\ batch.indexed
    /\ Cardinality(DOMAIN disk) > max_cache_size
    /\ Len(file_cache) = max_cache_size

(***************************************************************************)
(* C10: a read of a file that is not cached, made when the cache is full,  *)
(* removes the entry that was inserted earliest (whatever hits it had      *)
(* since), and a read of a file that is not (or no longer) cached caches   *)
(* the document as it is on disk now.                                      *)
(***************************************************************************)
CacheFiles(cache) == [i \in 1..Len(cache) |-> cache[i].file]

InsertionOrderEviction ==
    [][\A a \in DOMAIN TheIndex.assets :
           LET f == TheIndex.assets[a].file
           IN (GetAssetById(a) /\ ~InList(f, ins_order) /\ f[2] \in DOMAIN disk) =>
                  /\ Len(ins_order) = max_cache_size =>
                         CacheKeys(file_cache) \ CacheKeys(file_cache') = {Head(ins_order)}
                  /\ file_cache'[Len(file_cache')] = [file |-> f, model |-> disk[f[2]]]
      ]_vars

\* An index build that hit the second document of the glob order, cached
\* before the first, and then evicted it for the third.
InsertionOrderEvictionWitness ==
    LET g == GlobOrigins(DOMAIN disk)
    IN /\ pc = "idle"
       /\ batch.indexed
       /\ Len(g) > max_cache_size
       /\ Len(g) >= 3
       /\ CacheFiles(file_cache) = <<AssetFilePath(g[1]), AssetFilePath(g[3])>>
       /\ ins_order = CacheFiles(file_cache)

(***************************************************************************)
(* C2: every asset id listed in a tag bucket or an origin bucket of the    *)
(* index is a key of its assets map, and every spec id listed in a tag     *)
(* bucket is a key of its specs map, after any sequence of add_asset,      *)
(* add_spec, add_asset_file and build_index.                               *)
(***************************************************************************)
AllIn(ids, d) == \A i \in 1..Len(ids) : ids[i] \in DOMAIN d

ReferentialIntegrity ==
    \A i \in 1..Len(index) :
        LET ix == index[i]
        IN /\ \A t \in DOMAIN ix.tags :
                  /\ AllIn(ix.tags[t].asset_ids, ix.assets)
                  /\ AllIn(ix.tags[t].spec_ids, ix.specs)
           /\ \A o \in DOMAIN ix.origins : AllIn(ix.origins[o].asset_ids, ix.assets)

\* An index rebuilt from disk and then added to: an asset that build_index
\* never saw sits in a tag bucket beside a spec, and in an origin bucket.
ReferentialIntegrityWitness ==
    /\ index # <<>>
    /\ index # index_file
    /\ \E t \in DOMAIN index[1].tags :
           /\ \E i \in 1..Len(index[1].tags[t].asset_ids) :
                  index[1].tags[t].asset_ids[i] = AssetId(RunOrigin, "TableEntry", 2)
           /\ index[1].tags[t].spec_ids # <<>>
    /\ \E o \in DOMAIN index[1].origins : Len(index[1].origins[o].asset_ids) > 1
    /\ file_cache # <<>>

(***************************************************************************)
(* C1: a record saved as a document and loaded through the base type       *)
(* (SerializableModel.from_json, or as an item of a collection that mixes  *)
(* subtypes) comes back as an instance of exactly its own class, with      *)
(* every field equal to the record's.                                      *)
(***************************************************************************)
RoundTripFidelity ==
    rt.stage = "loaded" =>
        \A i \in 1..Len(rt.objs) :
            /\ ~rt.loaded[i].raised
            /\ rt.loaded[i].class = rt.objs[i].class
            /\ rt.loaded[i].values = rt.objs[i].values

(***************************************************************************)
(* C11: build_index replaces the index wholesale.  Every entry of the      *)
(* index after the call (origin, asset, spec, tag bucket) is derived from  *)
(* a document or spec file the call read, none is carried over from the    *)
(* index before the call; and calling build_index again at once, with no   *)
(* write in between, builds the same index.                                *)
(***************************************************************************)
Documents(origin_id) ==
    {disk[origin_id]} \cup
    {file_cache[i].model :
        i \in {j \in 1..Len(file_cache) : file_cache[j].file = AssetFilePath(origin_id)}}

BuiltFrom(ix) ==
    /\ DOMAIN ix.origins \subseteq DOMAIN disk
    /\ \A a \in DOMAIN ix.assets :
           /\ a[1] \in DOMAIN disk
           /\ \E d \in Documents(a[1]) :
                  a[3] < Len(d.assets) /\ d.assets[a[3] + 1].type = a[2]
    /\ \A s \in DOMAIN ix.specs :
           /\ <<s[2], s[1]>> \in DOMAIN spec_files
           /\ s[3] < Len(spec_files[<<s[2], s[1]>>])
    /\ \A t \in DOMAIN ix.tags :
           /\ ix.tags[t].asset_files = <<>>
           /\ ix.tags[t].asset_ids # <<>> \/ ix.tags[t].spec_ids # <<>>

BuildIndexWholesale ==
    [][BuildIndex =>
          /\ BuiltFrom(index'[1])
          /\ build_index(disk', spec_files', file_cache', ins_order').index = index'[1]]_vars

(***************************************************************************)
(* C12: a failure of type resolution is never downgraded.  Loading a       *)
(* document whose descriptor cannot be resolved (missing module, missing   *)
(* attribute) or resolves to a class that is not a record type raises to   *)
(* the caller; the document is never validated against the expected class. *)
(***************************************************************************)
Unresolvable(type_info) ==
    get_import(type_info).raised \/ ~IsSerializableModel(get_import(type_info).cls)

ResolutionFailurePropagates ==
    rt.stage = "loaded" =>
        \A i \in 1..Len(rt.docs) :
            Unresolvable(rt.docs[i].type_info) => rt.loaded[i].raised

(***************************************************************************)
(* C13: for every collection and every (tag, type), None included,         *)
(* get_products(tag, type) and drop_products(tag, type) share no element   *)
(* and together hold every element of the collection exactly once.         *)
(***************************************************************************)
Oids(elements) == {elements[i].oid : i \in 1..Len(elements)}

Times(elements, oid) == Cardinality({i \in 1..Len(elements) : elements[i].oid = oid})

GetDropPartition ==
    coll.last.op \in {"get", "drop"} /\ coll.last.source = coll.elements =>
        LET got == get_products(coll.elements, coll.last.tag, coll.last.object_type)
            dropped == drop_products(coll.elements, coll.last.tag, coll.last.object_type)
        IN /\ Oids(got) \cap Oids(dropped) = {}
           /\ \A oid \in Oids(coll.elements) :
                  Times(got, oid) + Times(dropped, oid) = 1

(***************************************************************************)
(* C17: get_products(tag=t) is idempotent: applied to the collection that  *)
(* get_products(tag=t) returned, it returns the same elements in the same  *)
(* order.                                                                  *)
(***************************************************************************)
GetByTagIdempotent ==
    ( /\ coll.last.op = "get"
      /\ coll.last.object_type = NoType
      /\ coll.last.source = get_products(coll.elements, coll.last.tag, NoType) )
    => coll.last.elements = coll.last.source

\* get_products(tag='a') applied to the two products tagged 'a' that the first
\* get_products(tag='a') kept out of three.
GetByTagIdempotentWitness ==
    /\ Len(coll.elements) = 3
    /\ coll.last.op = "get"
    /\ coll.last.object_type = NoType
    /\ coll.last.tag = TagA
    /\ coll.last.source = get_products(coll.elements, TagA, NoType)
    /\ Len(coll.last.source) = 2
    /\ coll.last.elements = coll.last.source

(***************************************************************************)
(* C14: descriptor resolution is stable.  Every get_import on a descriptor *)
(* resolved before (with the cache, without it, with refresh, or after     *)
(* clear_cache) returns a type structurally equal to the one resolved      *)
(* before; and with caching enabled, no refresh and no clear_cache since   *)
(* the previous cache-using call, it returns the identical object.         *)
(***************************************************************************)
ResolutionStable ==
    [][( /\ typeinfo'.calls = typeinfo.calls + 1
         /\ ~typeinfo'.last.raised
         /\ typeinfo'.last.descriptor \in DOMAIN typeinfo.resolved )
       => LET before == typeinfo.resolved[typeinfo'.last.descriptor]
              now == typeinfo'.last.obj
          IN /\ now.structure = before.obj.structure
             /\ (typeinfo'.last.use_cache /\ ~typeinfo'.last.refresh /\ before.live)
                    => now = before.obj]_vars

(***************************************************************************)
(* C15: queries answer in stored order.  In what get_assets_by_tag and     *)
(* get_assets_by_origin return, the records of one origin document follow  *)
(* each other without a record of another document in between, and in      *)
(* increasing position.                                                    *)
(***************************************************************************)
InStoredOrder(ix, ids) ==
    \A i, j \in 1..Len(ids) :
        (i < j /\ ix.assets[ids[i]].file = ix.assets[ids[j]].file) =>
            /\ ix.assets[ids[i]].position < ix.assets[ids[j]].position
            /\ \A k \in i..j : ix.assets[ids[k]].file = ix.assets[ids[i]].file

QueriesInStoredOrder ==
    \A ty \in TypeArgs :
        /\ \A t \in Tags :
               ~ByTag(t, ty).raised => InStoredOrder(TheIndex, ByTag(t, ty).ids)
        /\ \A o \in OriginIds :
               ~ByOrigin(o, ty).raised => InStoredOrder(TheIndex, ByOrigin(o, ty).ids)

\* With an index in memory over three documents and files in the cache: the
\* query by tag 'a' answers records of two documents or more, two of them
\* from one document.
QueriesInStoredOrderWitness ==
    /\ index # <<>>
    /\ file_cache # <<>>
    /\ ~ByTag(TagA, NoType).raised
    /\ LET ids == ByTag(TagA, NoType).ids
       IN /\ \E i, j \in 1..Len(ids) : ids[i][1] # ids[j][1]
          /\ \E i, j \in 1..Len(ids) : i < j /\ ids[i][1] = ids[j][1]
    /\ \E o \in OriginIds : Len(ByOrigin(o, NoType).ids) = 2

(***************************************************************************)
(* C16: add_asset is idempotent per bucket.  After every step no tag       *)
(* bucket and no origin bucket of the index lists an asset id twice, also  *)
(* when the tag list names a tag twice; and an add_asset call repeated     *)
(* with the same arguments leaves the index as the first call left it.     *)
(***************************************************************************)
NoRepeat(ids) == \A i, j \in 1..Len(ids) : ids[i] = ids[j] => i = j

NoDuplicateIds(ix) ==
    /\ \A t \in DOMAIN ix.tags : NoRepeat(ix.tags[t].asset_ids)
    /\ \A o \in DOMAIN ix.origins : NoRepeat(ix.origins[o].asset_ids)

AddAssetIdempotent ==
    [][/\ index' # <<>> => NoDuplicateIds(index'[1])
       /\ \A a \in AddedAssetIds, tags \in AddedTags :
              AddAsset(a, tags) =>
                  add_asset(index'[1], a, a[2], AssetFilePath(a[1]), a[3], a[1], tags)
                      = index'[1]]_vars

\* An id build_index has indexed was added again, with a tag list that names
\* tag 'a' twice: bucket 'a' and the origin bucket list it among other ids.
AddAssetIdempotentWitness ==
    /\ index # <<>>
    /\ index # index_file
    /\ LET ix == index[1]
           a == AssetId(RunOrigin, "Point2D", 0)
       IN /\ a \in DOMAIN ix.assets
          /\ ix.assets[a].tags = <<"a", "a">>
          /\ InList(a, ix.tags["a"].asset_ids)
          /\ Len(ix.tags["a"].asset_ids) > 1
          /\ InList(a, ix.origins[RunOrigin].asset_ids)
          /\ Len(ix.origins[RunOrigin].asset_ids) > 1

(***************************************************************************)
(* C18: cls.model_validate(obj) with obj an instance of cls or of a        *)
(* subclass of cls returns obj itself, unchanged, without reading its      *)
(* descriptor and without touching the import cache.                       *)
(***************************************************************************)
ValidateInstanceIsIdentity ==
    [][( /\ rt.stage # "validated"
         /\ rt'.stage = "validated"
         /\ IsSubclass(rt'.objs[1].class.name, rt'.cls.name) )
       => /\ rt'.itself
          /\ ~rt'.loaded[1].raised
          /\ rt'.loaded[1].class = rt'.objs[1].class
          /\ rt'.loaded[1].values = rt'.objs[1].values
          /\ ~rt'.read_type_info
          /\ typeinfo' = typeinfo]_vars

\* A Point2D with a tuple tag was validated as an Asset, after a load had
\* put TableEntry in the import cache: Point2D is not among its keys.
ValidateInstanceIsIdentityWitness ==
    /\ rt.stage = "validated"
    /\ rt.cls = Class(AssetsModule, "Asset")
    /\ rt.objs[1].class = Class(AssetsModule, "Point2D")
    /\ rt.objs[1].values.tags = <<TagPair>>
    /\ rt.itself
    /\ DOMAIN typeinfo.cache = {cache_key(DescriptorOf(from_obj(
                                   [class |-> Class(AssetsModule, "TableEntry")])))}

\* ---------------------------------------------------------------------------
\* Identity of records: SerializableModel.__hash__, NamedModel.__eq__ and
\* NamedModel.__hash__.
\* ---------------------------------------------------------------------------

ShapeClass == Class("typeflow.serialization._test", "Shape")

NoName == [kind |-> "None", text |-> "None"]

ShapeNames == {NoName, [kind |-> "str", text |-> "triangle"],
               [kind |-> "str", text |-> "square"]}

ShapeColors == {[kind |-> "str", text |-> "blue"], [kind |-> "str", text |-> "green"]}

\* The Shape records: a name that may be None, no points, a colour.
Shapes ==
    {[class |-> ShapeClass, values |-> [name |-> n, points |-> <<>>, color |-> c]] :
        n \in ShapeNames, c \in ShapeColors}

IdentityRecords == Instances \cup Shapes

\* An object of the running process: a record at an address.
ObjectAt(oid, record) == [oid |-> oid, class |-> record.class, values |-> record.values]

IsNamedModel(obj) == obj.class = ShapeClass

\* The comparison a value record inherits from BaseModel: the same type and
\* the same field values.
BaseModel_eq(a, b) == a.class = b.class /\ a.values = b.values

\* NamedModel.__eq__
NamedModel_eq(a, b) ==
    IF ~IsNamedModel(b) THEN FALSE
    ELSE IF a.values.name = NoName \/ b.values.name = NoName THEN BaseModel_eq(a, b)
    ELSE a.class = b.class /\ a.values.name = b.values.name

\* a == b, dispatched on the class of a.
Model_eq(a, b) == IF IsNamedModel(a) THEN NamedModel_eq(a, b) ELSE BaseModel_eq(a, b)

\* id(self): the hash of an address.
IdHash(obj) == [by |-> "id", oid |-> obj.oid, type |-> "", name |-> ""]

\* SerializableModel.__hash__
SerializableModel_hash(obj) == IdHash(obj)

\* NamedModel.__hash__: hash((type(self).__name__, self.name)) for a named
\* record, id(self) for one whose name is None.
NamedModel_hash(obj) ==
    IF obj.values.name = NoName THEN IdHash(obj)
    ELSE [by |-> "name", oid |-> 0, type |-> obj.class.name, name |-> obj.values.name.text]

Model_hash(obj) ==
    IF IsNamedModel(obj) THEN NamedModel_hash(obj) ELSE SerializableModel_hash(obj)

ElsewhereOfIdentity ==
    UNCHANGED <<disk, spec_files, index, index_file, file_cache, max_cache_size,
                registry, pc, batch, writers, batches, ins_order, rt, coll, typeinfo,
                heap, flat, named>>

Compared(a, b) ==
    [op |-> "compare", a |-> a, b |-> b, equal |-> Model_eq(a, b),
     hash_a |-> Model_hash(a), hash_b |-> Model_hash(b)]

\* a == b and the two hashes, for two objects built separately; one
\* comparison is followed in a behaviour.
CompareRecords ==
    /\ cmp = NoComparison
    /\ heap = NoHeap
    /\ flat = NoFlat
    /\ named = NoNamed
    /\ \E ra \in IdentityRecords, rb \in IdentityRecords :
          cmp' = Compared(ObjectAt(1, ra), ObjectAt(2, rb))
    /\ ElsewhereOfIdentity

\* a == a and hash(a), for one object.
CompareWithItself ==
    /\ cmp = NoComparison
    /\ heap = NoHeap
    /\ flat = NoFlat
    /\ named = NoNamed
    /\ \E ra \in IdentityRecords : cmp' = Compared(ObjectAt(1, ra), ObjectAt(1, ra))
    /\ ElsewhereOfIdentity

NextIdentity ==
    \/ CompareRecords
    \/ CompareWithItself

SpecIdentity == Init /\ [][NextIdentity]_vars

\* C19: any two records that compare equal have equal hashes, value records
\* and named records alike.
EqualImpliesEqualHash ==
    cmp.op = "compare" => (cmp.equal => cmp.hash_a = cmp.hash_b)

\* ---------------------------------------------------------------------------
\* TypeInfo.__eq__ and TypeInfo.__hash__.  A descriptor without type
\* parameters or without extra arguments carries the empty sequence, which is
\* as false as None in the tests `bool(self.type_params)` and
\* `bool(self.extra_args)`.
\* ---------------------------------------------------------------------------

MaxParams == 2

InfoModules == {BuiltinsModule, TypingModule}
InfoNames == {"int", "list"}
InfoVersions == {NoVersion, "1.0.0"}
InfoExtraArgs == {<<>>, <<"gt0">>}

\* Descriptors without type parameters.
PlainInfos ==
    {TypeInfo(m, n, <<>>, v, x) :
        m \in InfoModules, n \in InfoNames, v \in InfoVersions, x \in InfoExtraArgs}

\* The descriptors that stand as type parameters.
ParamInfos ==
    {IntInfo, TypeInfo(BuiltinsModule, "int", <<>>, "1.0.0", <<>>),
     TypeInfo(BuiltinsModule, "list", <<>>, NoVersion, <<>>)}

ParamLists(over) == UNION {[1..n -> over] : n \in 1..MaxParams}

GenericInfos ==
    {TypeInfo(BuiltinsModule, "list", ps, v, x) :
        ps \in ParamLists(ParamInfos), v \in InfoVersions, x \in InfoExtraArgs}

\* Descriptors whose type parameter has a type parameter of its own.
NestedInfos ==
    {TypeInfo(BuiltinsModule, "list",
              <<TypeInfo(BuiltinsModule, "list", <<q>>, v, <<>>)>>, NoVersion, <<>>) :
        q \in ParamInfos, v \in InfoVersions}

InfoUniverse == PlainInfos \cup GenericInfos \cup NestedInfos

\* A comparison of descriptors that leaves the version out.
TypeInfo_eq_unversioned(a, b) ==
    /\ a.module_spec = b.module_spec
    /\ a.base_name = b.base_name
    /\ a.type_params = b.type_params
    /\ a.extra_args = b.extra_args

RECURSIVE TypeInfo_eq(_, _)
TypeInfo_eq(a, b) ==
    IF \/ a.module_spec # b.module_spec
       \/ a.base_name # b.base_name
       \/ a.version # b.version
    THEN FALSE
    ELSE IF (a.type_params # <<>>) # (b.type_params # <<>>) THEN FALSE
    ELSE IF /\ a.type_params # <<>>
            /\ \/ Len(a.type_params) # Len(b.type_params)
               \/ \E i \in 1..Len(a.type_params) :
                     ~TypeInfo_eq(a.type_params[i], b.type_params[i])
         THEN FALSE
    ELSE IF (a.extra_args # <<>>) # (b.extra_args # <<>>) THEN FALSE
    ELSE IF /\ a.extra_args # <<>>
            /\ \/ DOMAIN a.extra_args # DOMAIN b.extra_args
               \/ \E key \in DOMAIN a.extra_args : a.extra_args[key] # b.extra_args[key]
         THEN FALSE
    ELSE TRUE

\* TypeInfo.__hash__: what is hashed, the pair (module_spec, base_name) and,
\* when there are type parameters, the hashes of the parameters.
RECURSIVE TypeInfo_hash(_)
TypeInfo_hash(d) ==
    [base |-> <<d.module_spec, d.base_name>>,
     param_hashes |-> [i \in 1..Len(d.type_params) |-> TypeInfo_hash(d.type_params[i])]]

ComparedInfo(a, b) ==
    [op |-> "compare_info", a |-> a, b |-> b, equal |-> TypeInfo_eq(a, b),
     hash_a |-> TypeInfo_hash(a), hash_b |-> TypeInfo_hash(b)]

\* a == b and the two hashes, for two descriptors.
CompareInfo ==
    /\ cmp = NoComparison
    /\ heap = NoHeap
    /\ flat = NoFlat
    /\ named = NoNamed
    /\ \E a \in InfoUniverse, b \in InfoUniverse : cmp' = ComparedInfo(a, b)
    /\ ElsewhereOfIdentity

NextDescriptors == CompareInfo

SpecDescriptors == Init /\ [][NextDescriptors]_vars

\* Two descriptors agree: the same module_spec, base_name, version and
\* extra_args, and type parameters that agree one by one, in order.
RECURSIVE Agree(_, _)
Agree(a, b) ==
    /\ a.module_spec = b.module_spec
    /\ a.base_name = b.base_name
    /\ a.version = b.version
    /\ a.extra_args = b.extra_args
    /\ Len(a.type_params) = Len(b.type_params)
    /\ \A i \in 1..Len(a.type_params) : Agree(a.type_params[i], b.type_params[i])

\* C20: two descriptors compare equal exactly when module_spec, base_name,
\* version, extra_args and the ordered type parameters agree, recursively, and
\* descriptors that compare equal have equal hashes.
TypeInfoEqualityStructural ==
    cmp.op = "compare_info" =>
        /\ cmp.equal <=> Agree(cmp.a, cmp.b)
        /\ cmp.equal => cmp.hash_a = cmp.hash_b

\* Two descriptors with a nested type parameter were compared and are equal.
TypeInfoEqualityStructuralWitness ==
    /\ cmp.op = "compare_info"
    /\ cmp.a \in NestedInfos
    /\ cmp.b \in NestedInfos
    /\ cmp.equal
    /\ cmp.hash_a = cmp.hash_b

\* ---------------------------------------------------------------------------
\* The element lists of a DataProductCollection and of the collection that
\* get_products returns from it.  heap.lists holds the list objects: list 1
\* is the source's `elements`, heap.result names the list of the returned
\* collection.  A product in two lists is one object (one oid).
\* ---------------------------------------------------------------------------

\* A constructor that keeps the list it is given.
DataProductCollection_sharing(h, lid) == [h EXCEPT !.result = lid]

\* type(self)(elements=given) with the list at `lid` as the argument: the
\* validation of the field `elements: List[InstanceOf[DataProduct]]` checks
\* each item and collects the items in a list of its own; the items are the
\* same objects.
DataProductCollection_of(h, lid) ==
    [h EXCEPT !.lists = <<h.lists[h.source], h.lists[lid]>>, !.result = 2]

\* type(self)(elements=[e for e in self.elements if ...]): the argument is
\* the list the comprehension made.
DataProductCollection_from(h, elements) ==
    DataProductCollection_of([h EXCEPT !.lists = <<h.lists[h.source], elements>>], 2)

\* self.get_products(tag, object_type) on the source collection.
get_products_of(h, tag, object_type) ==
    IF tag = NoTag /\ object_type = NoType
    THEN DataProductCollection_of(h, h.source)
    ELSE DataProductCollection_from(h, get_products(h.lists[h.source], tag, object_type))

\* collection.add_products(product): self.elements.extend(...) on the list
\* object the collection holds.
add_products(h, lid, kind) ==
    [h EXCEPT !.lists[lid] = Append(@, [oid |-> h.made + 1, type |-> kind.type,
                                        tags |-> kind.tags]),
              !.made = @ + 1]

ElsewhereOfHeap ==
    UNCHANGED <<disk, spec_files, index, index_file, file_cache, max_cache_size,
                registry, pc, batch, writers, batches, ins_order, rt, coll, typeinfo,
                cmp, flat, named>>

AddToSource(kind) ==
    /\ heap.made < MaxElements
    /\ heap' = [add_products(heap, heap.source, kind) EXCEPT !.last = "add_to_source"]
    /\ ElsewhereOfHeap

GetProductsOfSource(tag, object_type) ==
    /\ heap' = [get_products_of(heap, tag, object_type) EXCEPT
                   !.last = "get",
                   !.from = IF tag = NoTag /\ object_type = NoType THEN "all" ELSE "filter"]
    /\ ElsewhereOfHeap

AddToResult(kind) ==
    /\ heap.result # 0
    /\ heap.made < MaxElements
    /\ heap' = [add_products(heap, heap.result, kind) EXCEPT !.last = "add_to_result"]
    /\ ElsewhereOfHeap

NextHeap ==
    \/ \E kind \in ProductKinds : AddToSource(kind)
    \/ \E tag \in FilterTags, ty \in FilterTypes : GetProductsOfSource(tag, ty)
    \/ \E kind \in ProductKinds : AddToResult(kind)

SpecHeap == Init /\ [][NextHeap]_vars

\* C21: get_products() without a tag and without a type returns a collection
\* that holds all elements of the source in a list of its own: adding to the
\* result leaves the source's elements as they were, and adding to the source
\* leaves the result's.
GetAllNeverAliases ==
    [][/\ (heap'.last = "get" /\ heap'.from = "all") =>
              /\ heap'.lists[heap'.result] = heap.lists[heap.source]
              /\ heap'.lists[heap'.source] = heap.lists[heap.source]
              /\ heap'.result # heap'.source
       /\ (heap.from = "all" /\ heap'.last = "add_to_result") =>
              heap'.lists[heap'.source] = heap.lists[heap.source]
       /\ (heap.from = "all" /\ heap'.last = "add_to_source") =>
              heap'.lists[heap'.result] = heap.lists[heap.result]]_vars

\* A product was added to the collection that get_products() returned for a
\* source with elements, and the source kept its elements.
GetAllNeverAliasesWitness ==
    /\ heap.from = "all"
    /\ heap.last = "add_to_result"
    /\ Len(heap.lists[heap.source]) > 0
    /\ Len(heap.lists[heap.result]) = Len(heap.lists[heap.source]) + 1

\* ---------------------------------------------------------------------------
\* trendify.products.flatten and DataProductCollection.union.  A value is a
\* record of its kind, its text and, for a container, its items.
\* ---------------------------------------------------------------------------

MaxLen == 2
MaxCollections == 2

Value(kind, text, items) == [kind |-> kind, text |-> text, items |-> items]

StrValue(text) == Value("str", text, <<>>)
ListValue(items) == Value("list", "", items)
ProductValue(name) == Value("product", name, <<>>)

Atoms ==
    {StrValue("ab"), Value("bytes", "xy", <<>>), Value("int", "7", <<>>),
     ProductValue("p1")}

SeqsUpTo(n, over) == UNION {[1..k -> over] : k \in 0..n}

\* A tuple or a list of atoms.
FlatContainers ==
    {Value(kind, "", items) : kind \in {"list"}, items \in SeqsUpTo(MaxLen, Atoms)}
        \cup {Value("tuple", "", <<StrValue("ab"), ProductValue("p1")>>)}

InnerContainers ==
    {Value("list", "", items) : items \in SeqsUpTo(1, Atoms)}
        \cup {Value("tuple", "", <<StrValue("ab"), ProductValue("p1")>>),
              ListValue(<<ListValue(<<ProductValue("p1")>>), StrValue("ab")>>)}

NestedContainers ==
    {ListValue(items) : items \in SeqsUpTo(MaxLen, Atoms \cup InnerContainers)}

FlattenArguments == Atoms \cup FlatContainers \cup NestedContainers

\* isinstance(obj, Iterable): containers, and strings, bytes and models too.
IsIterable(obj) == obj.kind \in {"list", "tuple", "chain", "str", "bytes", "product"}

\* What `for sublist in obj` goes through: the items of a container, the
\* characters of a string, the (field, value) pairs of a model.
Iterate(obj) ==
    CASE obj.kind = "str" /\ obj.text = "ab" -> <<StrValue("a"), StrValue("b")>>
      [] obj.kind = "product" ->
             <<Value("tuple", "", <<StrValue("product_type"), StrValue(obj.text)>>)>>
      [] OTHER -> obj.items

\* A test that lets a DataProduct be flattened.
should_be_flattened_products(obj) == IsIterable(obj) /\ obj.kind \notin {"str", "bytes"}

should_be_flattened(obj) ==
    IsIterable(obj) /\ obj.kind \notin {"str", "bytes", "product"}

RECURSIVE flatten(_)
RECURSIVE FlattenItems(_, _)
flatten(obj) ==
    IF ~should_be_flattened(obj) THEN <<obj>>
    ELSE FlattenItems(Iterate(obj), 1)

\* for sublist in obj: yield from flatten(sublist)
FlattenItems(items, k) ==
    IF k > Len(items) THEN <<>>
    ELSE flatten(items[k]) \o FlattenItems(items, k + 1)

\* chain(c.elements for c in collections): an iterable of the element lists.
ChainOfElements(collections) ==
    Value("chain", "", [i \in 1..Len(collections) |-> ListValue(collections[i])])

\* DataProductCollection.union: the element list of the new collection.
union(collections) == flatten(ChainOfElements(collections))

UnionProducts == {ProductValue("p1"), ProductValue("p2")}

UnionArguments == SeqsUpTo(MaxCollections, SeqsUpTo(MaxLen, UnionProducts))

ElsewhereOfFlat ==
    UNCHANGED <<disk, spec_files, index, index_file, file_cache, max_cache_size,
                registry, pc, batch, writers, batches, ins_order, rt, coll, typeinfo,
                cmp, heap, named>>

\* list(flatten(obj)), once in a behaviour.
Flatten ==
    /\ flat = NoFlat
    /\ named = NoNamed
    /\ \E obj \in FlattenArguments :
          flat' = [op |-> "flatten", arg |-> obj, out |-> flatten(obj)]
    /\ ElsewhereOfFlat

\* DataProductCollection.union(*collections), once in a behaviour.
Union ==
    /\ flat = NoFlat
    /\ named = NoNamed
    /\ \E collections \in UnionArguments :
          flat' = [op |-> "union", arg |-> collections, out |-> union(collections)]
    /\ ElsewhereOfFlat

NextFlat ==
    \/ Flatten
    \/ Union

SpecFlat == Init /\ [][NextFlat]_vars

IsLeaf(obj) == obj.kind \in {"str", "bytes", "int", "product"}

MaxDepth == 3

\* The positions inside a nested value: sequences of item numbers.
Positions == UNION {[1..d -> 1..MaxLen + 1] : d \in 0..MaxDepth}

RECURSIVE Inside(_, _)
Inside(obj, pos) ==
    IF pos = <<>> THEN TRUE
    ELSE /\ ~IsLeaf(obj)
         /\ Head(pos) <= Len(obj.items)
         /\ Inside(obj.items[Head(pos)], Tail(pos))

RECURSIVE ValueAt(_, _)
ValueAt(obj, pos) ==
    IF pos = <<>> THEN obj ELSE ValueAt(obj.items[Head(pos)], Tail(pos))

LeafPositions(obj) == {pos \in Positions : Inside(obj, pos) /\ IsLeaf(ValueAt(obj, pos))}

\* pos comes before other, reading left to right.
RECURSIVE Before(_, _)
Before(pos, other) ==
    IF pos = <<>> \/ other = <<>> THEN FALSE
    ELSE \/ Head(pos) < Head(other)
         \/ Head(pos) = Head(other) /\ Before(Tail(pos), Tail(other))

RankOf(obj, pos) == Cardinality({q \in LeafPositions(obj) : Before(q, pos)}) + 1

RECURSIVE Concatenated(_)
Concatenated(lists) ==
    IF lists = <<>> THEN <<>> ELSE Head(lists) \o Concatenated(Tail(lists))

\* C22: flatten yields exactly the leaves of its argument, left to right and
\* depth first, and expands no string, bytes value or DataProduct; union
\* yields the elements of the first collection in order, then those of the
\* second, none lost and none twice.
FlattenYieldsLeaves ==
    /\ flat.op = "flatten" =>
          /\ Len(flat.out) = Cardinality(LeafPositions(flat.arg))
          /\ \A pos \in LeafPositions(flat.arg) :
                 flat.out[RankOf(flat.arg, pos)] = ValueAt(flat.arg, pos)
    /\ flat.op = "union" =>
          LET elements == [i \in 1..Len(flat.out) |-> flat.out[i]]
          IN elements = Concatenated(flat.arg)

\* A nested list with a product, a string and a list inside a list was
\* flattened to more than two leaves.
FlattenYieldsLeavesWitness ==
    /\ flat.op = "flatten"
    /\ Len(flat.out) > 2
    /\ \E i \in 1..Len(flat.arg.items) :
          /\ flat.arg.items[i].kind = "list"
          /\ flat.arg.items[i].items # <<>>
          /\ flat.arg.items[i].items[1].kind = "list"
    /\ \E i \in 1..Len(flat.out) : flat.out[i].kind = "product"
    /\ \E i \in 1..Len(flat.out) : flat.out[i].kind = "str"

(***************************************************************************)
(* C23: the rebuilt index reflects the documents on disk.  After a call    *)
(* of build_index, the entries of each origin are those of its document as *)
(* it is on disk now: one entry per record, with the record's type, tags   *)
(* and position, whatever version of the file the read cache holds.        *)
(***************************************************************************)
EntriesOf(ix, origin_id) == {a \in DOMAIN ix.assets : a[1] = origin_id}

ReflectsDocument(ix, origin_id, document) ==
    /\ EntriesOf(ix, origin_id) =
           {AssetId(origin_id, document.assets[k].type, k - 1) :
               k \in 1..Len(document.assets)}
    /\ \A k \in 1..Len(document.assets) :
           LET a == AssetId(origin_id, document.assets[k].type, k - 1)
           IN a \in DOMAIN ix.assets =>
                  /\ ix.assets[a].type = document.assets[k].type
                  /\ ix.assets[a].tags = StrTags(document.assets[k].tags)
                  /\ ix.assets[a].position = k - 1

RebuildReflectsDisk ==
    [][(BuildIndex \/ (batch'.indexed /\ ~batch.indexed)) =>
          \A origin_id \in DOMAIN disk' :
              ReflectsDocument(index'[1], origin_id, disk'[origin_id])]_vars

(***************************************************************************)
(* C24: indexed positions stay valid.  Every asset id of the index has a   *)
(* position inside the document now stored in its backing file, and the    *)
(* record at that position has the type recorded for the id.               *)
(***************************************************************************)
PositionValid(entry) ==
    /\ entry.origin \in DOMAIN disk
    /\ entry.file = AssetFilePath(entry.origin)
    /\ entry.position < Len(disk[entry.origin].assets)
    /\ disk[entry.origin].assets[entry.position + 1].type = entry.type

IndexedPositionsValid ==
    (pc = "idle" /\ (index # <<>> \/ index_file # <<>>)) =>
        \A a \in DOMAIN TheIndex.assets : PositionValid(TheIndex.assets[a])

\* TrendifyManager.get_asset_specs_by_tag: the answers come from the spec
\* registry of the controlling process.
get_asset_specs_by_tag(specs, tag, spec_type) ==
    IF spec_type # NoType
    THEN IF <<spec_type, tag>> \in DOMAIN specs THEN {specs[<<spec_type, tag>>]} ELSE {}
    ELSE {specs[key] : key \in {k \in DOMAIN specs : k[2] = tag}}

SpecTypeArgs == {NoType, "AxesSpec"}

(***************************************************************************)
(* C25: sequential and parallel processing are observably equivalent.  A   *)
(* task run by a worker (n_procs > 1) leaves the controlling process as    *)
(* the same task run with n_procs = 1 would: the same returned id, the     *)
(* same origin documents and spec files, the same index after build_index  *)
(* and the same answers of get_asset_specs_by_tag.                         *)
(***************************************************************************)
ParallelAsSequential ==
    [][(pc = "processing" /\ batch.n_procs > 1) =>
          \A p \in InputPaths, g \in Generated :
              LET r == process_origin_directory(p, g, disk, spec_files, registry,
                                                index, index_file)
              IN (WorkerTask(p, g) /\ ~r.raised) =>
                     /\ batch'.results = Append(batch.results, r.origin_id)
                     /\ disk' = r.disk
                     /\ spec_files' = r.spec_files
                     /\ build_index(disk', spec_files', file_cache', ins_order').index
                            = build_index(r.disk, r.spec_files, file_cache, ins_order).index
                     /\ \A tag \in Tags, ty \in SpecTypeArgs :
                            get_asset_specs_by_tag(registry', tag, ty)
                                = get_asset_specs_by_tag(r.registry, tag, ty)]_vars

(***************************************************************************)
(* C26: tag and origin buckets agree with the record entries, in both      *)
(* directions.  Asset id x is in tags[t].asset_ids exactly when t is among *)
(* assets[x].tags, and in origins[o].asset_ids exactly when                *)
(* assets[x].origin = o, also after an id was added again with another tag *)
(* list.                                                                   *)
(***************************************************************************)
BucketIds(ix) ==
    UNION {{ix.tags[t].asset_ids[i] : i \in 1..Len(ix.tags[t].asset_ids)} :
              t \in DOMAIN ix.tags}
      \cup UNION {{ix.origins[o].asset_ids[i] : i \in 1..Len(ix.origins[o].asset_ids)} :
                     o \in DOMAIN ix.origins}

BucketsAgree(ix) ==
    /\ BucketIds(ix) \subseteq DOMAIN ix.assets
    /\ \A x \in DOMAIN ix.assets :
           /\ \A i \in 1..Len(ix.assets[x].tags) : ix.assets[x].tags[i] \in DOMAIN ix.tags
           /\ \A t \in DOMAIN ix.tags :
                  InList(x, ix.tags[t].asset_ids)
                      <=> \E i \in 1..Len(ix.assets[x].tags) : ix.assets[x].tags[i] = t
           /\ ix.assets[x].origin \in DOMAIN ix.origins
           /\ \A o \in DOMAIN ix.origins :
                  InList(x, ix.origins[o].asset_ids) <=> ix.assets[x].origin = o

BucketsAgreeWithEntries == index # <<>> => BucketsAgree(index[1])

(***************************************************************************)
(* C27: record ids are unique across the store.  Two stored records that   *)
(* differ in origin or position never get the same id, so that after       *)
(* build_index the index has as many asset entries as there are records    *)
(* in the origin documents.                                                *)
(***************************************************************************)
StoredIn(dsk) == UNION {{<<o, k>> : k \in 1..Len(dsk[o].assets)} : o \in DOMAIN dsk}

IdOfStored(dsk, x) == AssetId(x[1], dsk[x[1]].assets[x[2]].type, x[2] - 1)

RecordIdsUnique ==
    [][(BuildIndex \/ (batch'.indexed /\ ~batch.indexed)) =>
          /\ \A x \in StoredIn(disk'), y \in StoredIn(disk') :
                 x # y => IdOfStored(disk', x) # IdOfStored(disk', y)
          /\ Cardinality(DOMAIN index'[1].assets) = Cardinality(StoredIn(disk'))]_vars

(***************************************************************************)
(* C28: resolving a descriptor with type parameters gives the base type    *)
(* with every resolved parameter applied, in order; when the parameters    *)
(* cannot be applied, the resolution raises: the base type without         *)
(* parameters is neither returned nor kept in the cache under the          *)
(* parametrized key.                                                       *)
(***************************************************************************)
RECURSIVE Parametrized(_)
Parametrized(d) ==
    [origin |-> Class(d.module_spec, d.base_name),
     args |-> [i \in 1..Len(d.type_params) |-> Parametrized(d.type_params[i])]]

Applied(obj) ==
    [origin |-> obj.structure.origin,
     args |-> [i \in 1..Len(obj.structure.args) |->
                  [origin |-> obj.structure.args[i].origin,
                   args |-> obj.structure.args[i].args]]]

ParametersApplied ==
    /\ (typeinfo.last.op = "get_import" /\ ~typeinfo.last.raised
            /\ typeinfo.last.descriptor.type_params # <<>>)
           => Applied(typeinfo.last.obj) = Parametrized(typeinfo.last.descriptor)
    /\ \A d \in Descriptors :
           (d.type_params # <<>> /\ cache_key(d) \in DOMAIN typeinfo.cache)
               => Applied(typeinfo.cache[cache_key(d)]) = Parametrized(d)

(***************************************************************************)
(* C29: a file-backed module is executed at most once in a process.  Over  *)
(* any get_import calls on descriptors of one file (with refresh or        *)
(* without, with the cache or without, across clear_cache), the file is    *)
(* executed once, at the first resolution, and every later resolution      *)
(* takes the module registered under the derived name.                     *)
(***************************************************************************)
TimesExecuted(path) ==
    Cardinality({i \in 1..Len(typeinfo.execs) : typeinfo.execs[i] = path})

FileExecutedOnce ==
    \A path \in ModuleFiles :
        /\ TimesExecuted(path) <= 1
        /\ TimesExecuted(path) = 1 <=> DynamicName(path) \in typeinfo.modules
        /\ (typeinfo.last.op = "get_import" /\ typeinfo.last.descriptor.module_spec = path)
               => TimesExecuted(path) = 1

\* Shape of plugins/shapes.py was resolved twice, the second time with
\* refresh, and the file was executed once.
FileExecutedOnceWitness ==
    /\ typeinfo.calls = 2
    /\ DOMAIN typeinfo.resolved = {ShapeFileInfo}
    /\ typeinfo.last.op = "get_import"
    /\ typeinfo.last.descriptor = ShapeFileInfo
    /\ typeinfo.last.refresh
    /\ ~typeinfo.last.raised
    /\ typeinfo.execs = <<ShapesFile>>

\* ---------------------------------------------------------------------------
\* typeflow.serialization.model_collections.NamedCollection: a dict of named
\* models.  The elements are the Shape records; a key is a name.
\* ---------------------------------------------------------------------------

NamedKeys == ShapeNames \ {NoName}

NameOf(item) == item.values.name

\* The dicts and the lists a caller passes.
DictsOfShapes == UNION {[keys -> Shapes] : keys \in SUBSET NamedKeys}

ListsOfShapes == SeqsUpTo(MaxLen, Shapes)

\* The loop of __init__ over a list: items_dict[item.name] = item, a
\* ValueError at the first item without a name.
RECURSIVE IndexedByName(_, _, _)
IndexedByName(items, k, items_dict) ==
    IF k > Len(items) THEN [raised |-> FALSE, items |-> items_dict]
    ELSE IF NameOf(items[k]) = NoName THEN [raised |-> TRUE, items |-> items_dict]
    ELSE IndexedByName(items, k + 1, Put(items_dict, NameOf(items[k]), items[k]))

\* NamedCollection.__init__: a dict is taken as it is, a list is indexed by
\* the names of its items.
NamedCollection_init(is_dict, items) ==
    IF is_dict THEN [raised |-> FALSE, items |-> items]
    ELSE IndexedByName(items, 1, EmptyDict)

\* dict.update
DictUpdate(d, other) ==
    [k \in DOMAIN d \cup DOMAIN other |-> IF k \in DOMAIN other THEN other[k] ELSE d[k]]

\* NamedCollection.add
NamedCollection_add(items_dict, item) ==
    IF NameOf(item) = NoName THEN [raised |-> TRUE, items |-> items_dict]
    ELSE [raised |-> FALSE, items |-> Put(items_dict, NameOf(item), item)]

\* NamedCollection.update with a list: self.add(item) for each item, so the
\* items before a nameless one are added.
RECURSIVE AddEach(_, _, _)
AddEach(items, k, items_dict) ==
    IF k > Len(items) THEN [raised |-> FALSE, items |-> items_dict]
    ELSE LET r == NamedCollection_add(items_dict, items[k])
         IN IF r.raised THEN r ELSE AddEach(items, k + 1, r.items)

\* NamedCollection.__setitem__
NamedCollection_setitem(items_dict, name, item) ==
    IF NameOf(item) # NoName /\ NameOf(item) # name
    THEN [raised |-> TRUE, items |-> items_dict]
    ELSE [raised |-> FALSE,
          items |-> Put(items_dict, name, [item EXCEPT !.values.name = name])]

Without(d, k) == [x \in DOMAIN d \ {k} |-> d[x]]

ElsewhereOfNamed ==
    UNCHANGED <<disk, spec_files, index, index_file, file_cache, max_cache_size,
                registry, pc, batch, writers, batches, ins_order, rt, coll, typeinfo,
                cmp, heap, flat>>

Did(op, r) == named' = [items |-> r.items, last |-> op, raised |-> r.raised]

\* NamedCollection(items=[...]): a new collection; none when it raises.
ConstructFromList(items) ==
    /\ LET r == NamedCollection_init(FALSE, items)
       IN Did("init_list", IF r.raised THEN [r EXCEPT !.items = EmptyDict] ELSE r)
    /\ ElsewhereOfNamed

\* NamedCollection(items={...})
ConstructFromDict(items) ==
    /\ Did("init_dict", NamedCollection_init(TRUE, items))
    /\ ElsewhereOfNamed

Add(item) ==
    /\ Did("add", NamedCollection_add(named.items, item))
    /\ ElsewhereOfNamed

UpdateWithDict(items) ==
    /\ Did("update_dict", [raised |-> FALSE, items |-> DictUpdate(named.items, items)])
    /\ ElsewhereOfNamed

UpdateWithList(items) ==
    /\ Did("update_list", AddEach(items, 1, named.items))
    /\ ElsewhereOfNamed

\* update with another NamedCollection, one made from a list of named models.
UpdateWithCollection(items) ==
    /\ ~NamedCollection_init(FALSE, items).raised
    /\ Did("update_collection",
           [raised |-> FALSE,
            items |-> DictUpdate(named.items, NamedCollection_init(FALSE, items).items)])
    /\ ElsewhereOfNamed

SetItem(name, item) ==
    /\ Did("setitem", NamedCollection_setitem(named.items, name, item))
    /\ ElsewhereOfNamed

\* pop(name): the default is returned for a name that is not there.
PopName(name) ==
    /\ Did("pop", [raised |-> FALSE, items |-> Without(named.items, name)])
    /\ ElsewhereOfNamed

\* remove(name): KeyError for a name that is not there.
RemoveName(name) ==
    /\ Did("remove", [raised |-> name \notin DOMAIN named.items,
                      items |-> Without(named.items, name)])
    /\ ElsewhereOfNamed

NextNamed ==
    \/ \E items \in ListsOfShapes : ConstructFromList(items)
    \/ \E items \in DictsOfShapes : ConstructFromDict(items)
    \/ \E item \in Shapes : Add(item)
    \/ \E items \in DictsOfShapes : UpdateWithDict(items)
    \/ \E items \in ListsOfShapes : UpdateWithList(items)
    \/ \E items \in ListsOfShapes : UpdateWithCollection(items)
    \/ \E name \in NamedKeys, item \in Shapes : SetItem(name, item)
    \/ \E name \in NamedKeys : PopName(name)
    \/ \E name \in NamedKeys : RemoveName(name)

SpecNamed == Init /\ [][NextNamed]_vars

\* C30: in a NamedCollection every key is the name of the element stored
\* under it, and no two entries hold elements of the same name, after any
\* construction, add, update, __setitem__, pop and remove.
KeysAreNames ==
    /\ \A k \in DOMAIN named.items : NameOf(named.items[k]) = k
    /\ \A k1 \in DOMAIN named.items, k2 \in DOMAIN named.items :
           k1 # k2 => NameOf(named.items[k1]) # NameOf(named.items[k2])

====
